---------------------------- MODULE Spec2Model ----------------------------
(***************************************************************************)
(* heyDM compositor core: window manager (src/heydm/src/window.rs), input  *)
(* router (src/heydm/src/input.rs), launcher overlay                      *)
(* (src/heydm/src/launcher.rs), status panel (src/heydm/src/panel.rs) and *)
(* the winit event loop (src/heydm/src/state.rs).                         *)
(*                                                                         *)
(* Conventions.                                                            *)
(*  - Option<T> is a sequence: None is << >>, Some(v) is <<v>>.            *)
(*  - Vec indices are Rust's (0-based); At(v, i) reads element i.          *)
(*  - Window geometry is i32 pixels.  The cursor is an f64 pair; it is     *)
(*    kept in fixed point, Sub units per pixel, so that the `as i32` casts *)
(*    (truncation toward zero) act on fractional values.                   *)
(*  - A toplevel surface is identified by a number in 1..MaxWindows.       *)
(*  - A text the code inspects character by character (a descriptor's      *)
(*    values, a sysfs file's content) is a sequence of one-character       *)
(*    strings.                                                             *)
(***************************************************************************)
EXTENDS Integers, Sequences, FiniteSets, TLC

VARIABLES
    state,      \* the HeyDM struct (state.rs:68-89), the fields the core uses
    running,    \* run_winit's local `running` (state.rs:231)
    pc,         \* position of run_winit's loop (state.rs:232-272)
    n_grabs,    \* number of begin_move/begin_resize calls so far (bounds the model)
    env         \* the machine: wall clock, descriptor files, sysfs trees

vars == <<state, running, pc, n_grabs, env>>

----------------------------------------------------------------------------
(* Bounds of the model *)

MaxWindows == 2
MaxGrabs == 1
\* longest search query typed into the launcher
MaxQuery == 2
\* resolution of the f64 cursor: units per pixel
Sub == 2
\* most lines of the descriptor file under scan
MaxLines == 5
\* last second of the wall clock
MaxClock == 3

(* Program constants *)

PanelHeight == 32
PanelBand == 32
DefaultX == 100
DefaultY == 100
DefaultW == 800
DefaultH == 600
MinResizeW == 200
MinResizeH == 150
PanelButtonW == 100
InitialOutputW == 1920
InitialOutputH == 1080
LauncherOutputW == 1920
LauncherOutputH == 1080
LauncherMaxW == 800
LauncherMaxH == 600
LauncherMarginW == 100
LauncherMarginH == 200
LauncherSearchBarH == 50
LauncherPad == 20
LauncherGridInset == 30
LauncherCols == 4
LauncherRows == 3
LauncherItemH == 100
SecondsPerMinute == 60
\* render.rs:25-27
PANEL_HEIGHT == 44
PANEL_MARGIN == 10
BORDER_WIDTH == 3

----------------------------------------------------------------------------
(* Option and arithmetic helpers *)

None == << >>
Some(v) == <<v>>
IsSome(o) == o # << >>
Unwrap(o) == o[1]

Max(a, b) == IF a >= b THEN a ELSE b
Min(a, b) == IF a <= b THEN a ELSE b
Clamp(v, lo, hi) == IF v < lo THEN lo ELSE IF v > hi THEN hi ELSE v

\* Rust's integer `/` and the f64 `as i32` cast both truncate toward zero.
TruncDiv(a, b) == IF a >= 0 THEN a \div b ELSE -((-a) \div b)
\* an f64 held in Sub-units, cast to i32
AsI32(f) == TruncDiv(f, Sub)
\* an i32 as f64, in Sub-units
AsF64(i) == Sub * i

At(v, i) == v[i + 1]
RemoveAt(v, i) == SubSeq(v, 1, i) \o SubSeq(v, i + 2, Len(v))
Indices(v) == 0 .. (Len(v) - 1)
Range(v) == { v[i] : i \in 1 .. Len(v) }

----------------------------------------------------------------------------
(* Input alphabets: what the backend and the clients may deliver *)

OutputSizes == { <<1920, 1080>>, <<640, 480>> }
\* absolute cursor points (50,10), (960 + 1/Sub, 540 + 1/Sub), (200, 400 + 1/Sub)
AbsPoints == { <<50 * Sub, 10 * Sub>>,
               <<960 * Sub + 1, 540 * Sub + 1>>,
               <<200 * Sub, 400 * Sub + 1>> }
\* relative motion deltas: far up-left, far down-right
RelDeltas == { <<-3000 * Sub, -3000 * Sub>>, <<3000 * Sub, 3000 * Sub>> }
ModifierNames == {"ctrl", "alt", "shift", "logo"}
ModifierSets == SUBSET ModifierNames
Keysyms == {"Return", "d", "D", "q", "Q", "f", "F", "Left", "Right", "Tab",
            "e", "E", "F4", "a"}
KeyStates == {"Pressed", "Released"}
\* the key events the backend delivers in a run: <<modifiers, keysym, state>>.
\* One chord per binding, chords with a further modifier held, an unbound key
\* and a release.
LayoutChords ==
    { <<{"logo"}, "f", "Pressed">>, <<{"logo"}, "Left", "Pressed">>,
      <<{"logo"}, "Right", "Pressed">> }
FocusChords ==
    { <<{"logo"}, "Tab", "Pressed">>, <<{"logo", "ctrl"}, "d", "Pressed">>,
      <<{"logo", "shift"}, "D", "Pressed">> }
OtherChords ==
    { <<{"logo"}, "Return", "Pressed">>, <<{"logo"}, "q", "Pressed">>,
      <<{"alt"}, "F4", "Pressed">>, <<{"logo", "alt"}, "F4", "Pressed">>,
      <<{}, "a", "Pressed">>, <<{"logo"}, "f", "Released">> }
ExitChords == { <<{"logo", "shift"}, "E", "Pressed">>, <<{"logo"}, "e", "Pressed">> }
ButtonStates == {"Pressed", "Released"}
\* characters typed into the launcher's search query
QueryChars == {"o", "F", "u", "e", "x"}
Toplevels == 1 .. MaxWindows

\* the descriptors in the system directories; a line is the pair that
\* split_once('=') gives, a line without '=' a key with an empty value
InstalledFiles ==
    << [ path |-> "foo", extension |-> "desktop",
         lines |-> << [key |-> "[Desktop Entry]", value |-> << >>],
                      [key |-> "Name", value |-> <<"F", "o", "o">>],
                      [key |-> "GenericName", value |-> <<"e", "d">>],
                      [key |-> "Exec", value |-> <<"f", "o", "o">>],
                      [key |-> "Categories", value |-> <<"U", "t", ";">>] >> ],
       [ path |-> "of", extension |-> "desktop",
         lines |-> << [key |-> "[Desktop Entry]", value |-> << >>],
                      [key |-> "Name", value |-> <<"o", "f">>],
                      [key |-> "Exec", value |-> <<"o", "f">>] >> ] >>
\* the lines a further descriptor is made of
DescriptorLines ==
    { [key |-> "[Desktop Entry]", value |-> << >>],
      [key |-> "[Desktop Action New]", value |-> << >>],
      [key |-> "Name", value |-> <<"E", "d">>],
      [key |-> "Name", value |-> <<" ">>],
      [key |-> "Exec", value |-> <<"e", "d", " ", "%", "U">>],
      [key |-> "Exec", value |-> <<"%", "F", " ", "%", "u">>],
      [key |-> "Hidden", value |-> <<"t", "r", "u", "e">>],
      [key |-> "Hidden", value |-> <<"f", "a", "l", "s", "e">>],
      [key |-> "NoDisplay", value |-> <<"T", "r", "u", "e">>] }
Digits == << "0", "1", "2", "3", "4", "5", "6", "7", "8", "9" >>
Charging == << "c", "h", "a", "r", "g", "i", "n", "g" >>
Full == << "f", "u", "l", "l" >>
\* /sys/class/power_supply/BAT<n>: absent (None), or a directory whose
\* capacity and status files hold a text or cannot be read (None)
BatteryDirs ==
    { None,
      Some([ capacity |-> Some(<<"5", "5", "\n">>),
             status |-> Some(<<"C", "h", "a", "r", "g", "i", "n", "g", "\n">>) ]),
      Some([ capacity |-> Some(<<"2", "5", "0">>), status |-> Some(<<"F", "u", "l", "l">>) ]),
      Some([ capacity |-> Some(<<"-", "5">>), status |-> Some(<<"l", "o", "w">>) ]),
      Some([ capacity |-> Some(<<"x">>), status |-> None ]) }
\* /sys/class/net: unreadable (None), or its entries in directory order
NetDirs ==
    { None,
      Some(<< [name |-> <<"l", "o">>, operstate |-> Some(<<"u", "p", "\n">>)],
              [name |-> <<"e", "t", "h", "0">>, operstate |-> Some(<<"d", "o", "w", "n">>)],
              [name |-> <<"w", "l", "a", "n", "0">>, operstate |-> Some(<<"u", "p", "\n">>)] >>),
      Some(<< [name |-> <<"e", "n", "s", "3">>, operstate |-> Some(<<"u", "p">>)],
              [name |-> <<"w", "l", "a", "n", "0">>, operstate |-> Some(<<"u", "p">>)] >>),
      Some(<< [name |-> <<"l", "o">>, operstate |-> Some(<<"u", "p">>)],
              [name |-> <<"e", "t", "h", "0">>, operstate |-> None] >>),
      Some(<< [name |-> <<"b", "r", "0">>, operstate |-> Some(<<"u", "p", "\n">>)],
              [name |-> <<"e", "t", "h", "0">>, operstate |-> Some(<<"u", "p", "\n">>)] >>) }

\* the machine the compositor starts on: no battery, no network interface
Machine ==
    [ now |-> 1,
      user_applications |-> << >>,
      bat0 |-> None,
      bat1 |-> None,
      net |-> Some(<< >>) ]


----------------------------------------------------------------------------
(* WindowElement (window.rs:17-75) *)

WindowElementNew(toplevel) ==
    [ toplevel |-> toplevel,
      position |-> <<DefaultX, DefaultY>>,
      size |-> <<DefaultW, DefaultH>>,
      fullscreen |-> FALSE,
      saved_geometry |-> None ]

Geometry(w) == [loc |-> w.position, size |-> w.size]

ContainsPoint(w, point) ==
    LET rect == Geometry(w) IN
    /\ point[1] >= AsF64(rect.loc[1])
    /\ point[1] <= AsF64(rect.loc[1] + rect.size[1])
    /\ point[2] >= AsF64(rect.loc[2])
    /\ point[2] <= AsF64(rect.loc[2] + rect.size[2])

----------------------------------------------------------------------------
(* WindowManager (window.rs:78-415).  Every operation is a function from   *)
(* the manager (and its arguments) to the manager after the call.          *)

WindowManagerNew ==
    [ windows |-> << >>,
      focused |-> None,
      cursor_pos |-> <<0, 0>>,
      grab |-> None ]

FocusedValid(wm) == IsSome(wm.focused) /\ Unwrap(wm.focused) < Len(wm.windows)

\* add_window that centres the window without the max against the panel
AddWindowNoMax(wm, toplevel, output_size) ==
    LET window == WindowElementNew(toplevel)
        x == TruncDiv(output_size[1] - window.size[1], 2)
        y == PanelHeight + TruncDiv(output_size[2] - PanelHeight - window.size[2], 2)
        placed == [window EXCEPT !.position = <<Max(x, 0), y>>]
        pushed == Append(wm.windows, placed)
    IN [wm EXCEPT !.windows = pushed, !.focused = Some(Len(pushed) - 1)]

\* add_window that focuses the new window only when nothing was focused
AddWindowKeepsFocus(wm, toplevel, output_size) ==
    LET window == WindowElementNew(toplevel)
        x == TruncDiv(output_size[1] - window.size[1], 2)
        y == PanelHeight + TruncDiv(output_size[2] - PanelHeight - window.size[2], 2)
        placed == [window EXCEPT !.position = <<Max(x, 0), Max(y, PanelHeight)>>]
        pushed == Append(wm.windows, placed)
    IN [wm EXCEPT !.windows = pushed,
                  !.focused = IF IsSome(@) THEN @ ELSE Some(Len(pushed) - 1)]

AddWindow(wm, toplevel, output_size) ==
    LET window == WindowElementNew(toplevel)
        x == TruncDiv(output_size[1] - window.size[1], 2)
        y == PanelHeight + TruncDiv(output_size[2] - PanelHeight - window.size[2], 2)
        placed == [window EXCEPT !.position = <<Max(x, 0), Max(y, PanelHeight)>>]
        pushed == Append(wm.windows, placed)
    IN [wm EXCEPT !.windows = pushed, !.focused = Some(Len(pushed) - 1)]

\* iter().position(|w| &w.toplevel == surface)
PositionOf(windows, surface) ==
    LET hits == { i \in Indices(windows) : At(windows, i).toplevel = surface } IN
    IF hits = {} THEN None
    ELSE Some(CHOOSE i \in hits : \A j \in hits : i <= j)

\* remove_window that also ends the grab
RemoveWindowEndsGrab(wm, surface) ==
    LET found == PositionOf(wm.windows, surface) IN
    IF ~IsSome(found) THEN wm
    ELSE LET idx == Unwrap(found)
             rest == RemoveAt(wm.windows, idx)
             focus == IF Len(rest) = 0 THEN None
                      ELSE IF IsSome(wm.focused)
                           THEN IF Unwrap(wm.focused) >= Len(rest)
                                THEN Some(Len(rest) - 1)
                                ELSE IF Unwrap(wm.focused) > idx
                                     THEN Some(Unwrap(wm.focused) - 1)
                                     ELSE wm.focused
                           ELSE wm.focused
         IN [wm EXCEPT !.windows = rest, !.focused = focus, !.grab = None]

\* remove_window that leaves the focus index as it was while a window remains
RemoveWindowKeepsIndex(wm, surface) ==
    LET found == PositionOf(wm.windows, surface) IN
    IF ~IsSome(found) THEN wm
    ELSE LET rest == RemoveAt(wm.windows, Unwrap(found))
         IN [wm EXCEPT !.windows = rest,
                       !.focused = IF Len(rest) = 0 THEN None ELSE wm.focused]

\* remove_window without the `focused >= len` renormalisation
RemoveWindowNoClamp(wm, surface) ==
    LET found == PositionOf(wm.windows, surface) IN
    IF ~IsSome(found) THEN wm
    ELSE LET idx == Unwrap(found)
             rest == RemoveAt(wm.windows, idx)
             focus == IF Len(rest) = 0 THEN None
                      ELSE IF IsSome(wm.focused) /\ Unwrap(wm.focused) > idx
                           THEN Some(Unwrap(wm.focused) - 1)
                           ELSE wm.focused
         IN [wm EXCEPT !.windows = rest, !.focused = focus]

RemoveWindow(wm, surface) ==
    LET found == PositionOf(wm.windows, surface) IN
    IF ~IsSome(found) THEN wm
    ELSE LET idx == Unwrap(found)
             rest == RemoveAt(wm.windows, idx)
             focus == IF Len(rest) = 0 THEN None
                      ELSE IF IsSome(wm.focused)
                           THEN IF Unwrap(wm.focused) >= Len(rest)
                                THEN Some(Len(rest) - 1)
                                ELSE IF Unwrap(wm.focused) > idx
                                     THEN Some(Unwrap(wm.focused) - 1)
                                     ELSE wm.focused
                           ELSE wm.focused
         IN [wm EXCEPT !.windows = rest, !.focused = focus]

\* close_focused that also drops the focused window from the registry
CloseFocusedRemoves(wm) ==
    IF FocusedValid(wm)
    THEN RemoveWindow(wm, At(wm.windows, Unwrap(wm.focused)).toplevel)
    ELSE wm

\* close_focused: the manager after the call; it assigns to no field
CloseFocused(wm) == wm

\* close_focused changes nothing locally; it issues send_close to the client
CloseFocusedMsgs(wm) ==
    IF FocusedValid(wm)
    THEN << [msg |-> "close", to |-> Some(At(wm.windows, Unwrap(wm.focused)).toplevel)] >>
    ELSE << >>

\* toggle_fullscreen whose restore branch puts back the position only
ToggleFullscreenWindowKeepSize(window, output_size) ==
    IF window.fullscreen
    THEN IF IsSome(window.saved_geometry)
         THEN [window EXCEPT !.position = Unwrap(window.saved_geometry).loc,
                             !.saved_geometry = None,
                             !.fullscreen = FALSE]
         ELSE [window EXCEPT !.fullscreen = FALSE]
    ELSE [window EXCEPT !.saved_geometry = Some(Geometry(window)),
                        !.position = <<0, 0>>,
                        !.size = <<output_size[1], output_size[2]>>,
                        !.fullscreen = TRUE]

\* toggle_fullscreen that, finding nothing saved, restores the geometry of
\* a new window
ToggleFullscreenWindowDefaults(window, output_size) ==
    IF window.fullscreen
    THEN IF IsSome(window.saved_geometry)
         THEN [window EXCEPT !.position = Unwrap(window.saved_geometry).loc,
                             !.size = Unwrap(window.saved_geometry).size,
                             !.saved_geometry = None,
                             !.fullscreen = FALSE]
         ELSE [window EXCEPT !.position = <<DefaultX, DefaultY>>,
                             !.size = <<DefaultW, DefaultH>>,
                             !.fullscreen = FALSE]
    ELSE [window EXCEPT !.saved_geometry = Some(Geometry(window)),
                        !.position = <<0, 0>>,
                        !.size = <<output_size[1], output_size[2]>>,
                        !.fullscreen = TRUE]

ToggleFullscreenWindow(window, output_size) ==
    IF window.fullscreen
    THEN IF IsSome(window.saved_geometry)
         THEN [window EXCEPT !.position = Unwrap(window.saved_geometry).loc,
                             !.size = Unwrap(window.saved_geometry).size,
                             !.saved_geometry = None,
                             !.fullscreen = FALSE]
         ELSE [window EXCEPT !.fullscreen = FALSE]
    ELSE [window EXCEPT !.saved_geometry = Some(Geometry(window)),
                        !.position = <<0, 0>>,
                        !.size = <<output_size[1], output_size[2]>>,
                        !.fullscreen = TRUE]

ToggleFullscreen(wm, output_size) ==
    IF FocusedValid(wm)
    THEN [wm EXCEPT !.windows[Unwrap(wm.focused) + 1] =
                        ToggleFullscreenWindow(@, output_size)]
    ELSE wm

\* tile_left that leaves the fullscreen flag as it finds it
TileLeftKeepsFlag(wm, output_size) ==
    IF FocusedValid(wm)
    THEN [wm EXCEPT !.windows[Unwrap(wm.focused) + 1] =
            [@ EXCEPT !.position = <<0, PanelHeight>>,
                      !.size = <<TruncDiv(output_size[1], 2),
                                 output_size[2] - PanelHeight>>]]
    ELSE wm

TileLeft(wm, output_size) ==
    IF FocusedValid(wm)
    THEN [wm EXCEPT !.windows[Unwrap(wm.focused) + 1] =
            [@ EXCEPT !.position = <<0, PanelHeight>>,
                      !.size = <<TruncDiv(output_size[1], 2),
                                 output_size[2] - PanelHeight>>,
                      !.fullscreen = FALSE]]
    ELSE wm

\* tile_right that leaves the fullscreen flag as it is
TileRightKeepsFlag(wm, output_size) ==
    IF FocusedValid(wm)
    THEN [wm EXCEPT !.windows[Unwrap(wm.focused) + 1] =
            [@ EXCEPT !.position = <<TruncDiv(output_size[1], 2), PanelHeight>>,
                      !.size = <<TruncDiv(output_size[1], 2),
                                 output_size[2] - PanelHeight>>]]
    ELSE wm

TileRight(wm, output_size) ==
    IF FocusedValid(wm)
    THEN [wm EXCEPT !.windows[Unwrap(wm.focused) + 1] =
            [@ EXCEPT !.position = <<TruncDiv(output_size[1], 2), PanelHeight>>,
                      !.size = <<TruncDiv(output_size[1], 2),
                                 output_size[2] - PanelHeight>>,
                      !.fullscreen = FALSE]]
    ELSE wm

\* a raise that pushes the window without removing it from its old place
RaiseToTopNoRemove(wm, idx) ==
    LET window == At(wm.windows, idx)
        pushed == Append(wm.windows, window)
    IN [wm EXCEPT !.windows = pushed, !.focused = Some(Len(pushed) - 1)]

\* remove(idx) then push: the window goes to the top of the stack and is focused
RaiseToTop(wm, idx) ==
    LET window == At(wm.windows, idx)
        pushed == Append(RemoveAt(wm.windows, idx), window)
    IN [wm EXCEPT !.windows = pushed, !.focused = Some(Len(pushed) - 1)]

\* cycle_focus that advances the index and forgets to raise the window
CycleFocusNoRaise(wm) ==
    IF Len(wm.windows) <= 1 THEN wm
    ELSE [wm EXCEPT !.focused = Some(IF IsSome(wm.focused)
                                     THEN (Unwrap(wm.focused) + 1) % Len(wm.windows)
                                     ELSE 0)]

CycleFocus(wm) ==
    IF Len(wm.windows) <= 1 THEN wm
    ELSE LET next == IF IsSome(wm.focused)
                     THEN (Unwrap(wm.focused) + 1) % Len(wm.windows)
                     ELSE 0
         IN RaiseToTop(wm, next)

\* the hit test run bottom-up: the lowest index that contains pos
BottommostAt(windows, pos) ==
    LET hits == { i \in Indices(windows) : ContainsPoint(At(windows, i), pos) } IN
    IF hits = {} THEN None
    ELSE Some(CHOOSE i \in hits : \A j \in hits : i <= j)

\* iter().enumerate().rev().find(contains_point): the highest index that contains pos
TopmostAt(windows, pos) ==
    LET hits == { i \in Indices(windows) : ContainsPoint(At(windows, i), pos) } IN
    IF hits = {} THEN None
    ELSE Some(CHOOSE i \in hits : \A j \in hits : i >= j)

FocusAt(wm, pos) ==
    LET found == TopmostAt(wm.windows, pos) IN
    IF IsSome(found) THEN RaiseToTop(wm, Unwrap(found)) ELSE wm

\* surface_under that searches the stack bottom-up
SurfaceUnderBottommost(wm, pos) ==
    LET found == BottommostAt(wm.windows, pos) IN
    IF IsSome(found)
    THEN LET window == At(wm.windows, Unwrap(found)) IN
         Some([surface |-> window.toplevel,
               relative_pos |-> <<pos[1] - AsF64(window.position[1]),
                                  pos[2] - AsF64(window.position[2])>>])
    ELSE None

SurfaceUnder(wm, pos) ==
    LET found == TopmostAt(wm.windows, pos) IN
    IF IsSome(found)
    THEN LET window == At(wm.windows, Unwrap(found)) IN
         Some([surface |-> window.toplevel,
               relative_pos |-> <<pos[1] - AsF64(window.position[1]),
                                  pos[2] - AsF64(window.position[2])>>])
    ELSE None

SetCursorPosition(wm, x, y) == [wm EXCEPT !.cursor_pos = <<x, y>>]

UpdateCursorRelative(wm, dx, dy, output_size) ==
    [wm EXCEPT !.cursor_pos =
        <<Clamp(wm.cursor_pos[1] + dx, 0, AsF64(output_size[1])),
          Clamp(wm.cursor_pos[2] + dy, 0, AsF64(output_size[2]))>>]

\* handle_pointer_motion: the manager after the call; GrabConsumes is its result
GrabConsumes(wm) == IsSome(wm.grab)

\* handle_pointer_motion whose Resize branch clamps the width only
HandlePointerMotionNoMinHeight(wm, pos) ==
    IF ~IsSome(wm.grab) THEN wm
    ELSE LET grab == Unwrap(wm.grab)
             dx == pos[1] - grab.initial_cursor[1]
             dy == pos[2] - grab.initial_cursor[2]
         IN IF grab.window_index >= Len(wm.windows) THEN wm
            ELSE IF grab.kind = "Move"
                 THEN LET new_x == grab.initial_window_pos[1] + AsI32(dx)
                          new_y == grab.initial_window_pos[2] + AsI32(dy)
                      IN [wm EXCEPT !.windows[grab.window_index + 1].position =
                                        <<new_x, Max(new_y, PanelHeight)>>]
                 ELSE LET new_w == Max(grab.initial_window_size[1] + AsI32(dx), MinResizeW)
                          new_h == grab.initial_window_size[2] + AsI32(dy)
                      IN [wm EXCEPT !.windows[grab.window_index + 1].size =
                                        <<new_w, new_h>>]

\* handle_pointer_motion whose Move branch adds the offset to the window's
\* current position
HandlePointerMotionAccumulates(wm, pos) ==
    IF ~IsSome(wm.grab) THEN wm
    ELSE LET grab == Unwrap(wm.grab)
             dx == pos[1] - grab.initial_cursor[1]
             dy == pos[2] - grab.initial_cursor[2]
         IN IF grab.window_index >= Len(wm.windows) THEN wm
            ELSE IF grab.kind = "Move"
                 THEN LET new_x == At(wm.windows, grab.window_index).position[1] + AsI32(dx)
                          new_y == At(wm.windows, grab.window_index).position[2] + AsI32(dy)
                      IN [wm EXCEPT !.windows[grab.window_index + 1].position =
                                        <<new_x, Max(new_y, PanelHeight)>>]
                 ELSE LET new_w == Max(grab.initial_window_size[1] + AsI32(dx), MinResizeW)
                          new_h == Max(grab.initial_window_size[2] + AsI32(dy), MinResizeH)
                      IN [wm EXCEPT !.windows[grab.window_index + 1].size =
                                        <<new_w, new_h>>]

HandlePointerMotion(wm, pos) ==
    IF ~IsSome(wm.grab) THEN wm
    ELSE LET grab == Unwrap(wm.grab)
             dx == pos[1] - grab.initial_cursor[1]
             dy == pos[2] - grab.initial_cursor[2]
         IN IF grab.window_index >= Len(wm.windows) THEN wm
            ELSE IF grab.kind = "Move"
                 THEN LET new_x == grab.initial_window_pos[1] + AsI32(dx)
                          new_y == grab.initial_window_pos[2] + AsI32(dy)
                      IN [wm EXCEPT !.windows[grab.window_index + 1].position =
                                        <<new_x, Max(new_y, PanelHeight)>>]
                 ELSE LET new_w == Max(grab.initial_window_size[1] + AsI32(dx), MinResizeW)
                          new_h == Max(grab.initial_window_size[2] + AsI32(dy), MinResizeH)
                      IN [wm EXCEPT !.windows[grab.window_index + 1].size =
                                        <<new_w, new_h>>]

BeginGrab(wm, kind) ==
    IF FocusedValid(wm)
    THEN LET idx == Unwrap(wm.focused) IN
         [wm EXCEPT !.grab = Some([ window_index |-> idx,
                                    kind |-> kind,
                                    initial_cursor |-> wm.cursor_pos,
                                    initial_window_pos |-> At(wm.windows, idx).position,
                                    initial_window_size |-> At(wm.windows, idx).size ])]
    ELSE wm

BeginMove(wm) == BeginGrab(wm, "Move")
BeginResize(wm) == BeginGrab(wm, "Resize")
EndGrab(wm) == [wm EXCEPT !.grab = None]

----------------------------------------------------------------------------
(* AppLauncher (launcher.rs:35-382) *)

LowerChar(c) ==
    CASE c = "C" -> "c" [] c = "D" -> "d" [] c = "E" -> "e" [] c = "F" -> "f"
      [] c = "O" -> "o" [] c = "T" -> "t" [] c = "U" -> "u"
      [] OTHER -> c
ToLowercase(s) == [i \in 1 .. Len(s) |-> LowerChar(s[i])]
\* str::contains
StrContains(hay, needle) ==
    \E i \in 1 .. (Len(hay) - Len(needle) + 1) :
        SubSeq(hay, i, i + Len(needle) - 1) = needle

\* the characters of the texts below, in code-point order
Ascii ==
    << " ", "%", ";", "D", "E", "F", "N", "O", "T", "U",
       "a", "d", "e", "f", "l", "o", "r", "s", "t", "u", "x" >>
CharCode(c) == CHOOSE i \in 1 .. Len(Ascii) : Ascii[i] = c
RECURSIVE StrLessEq(_, _)
\* a <= b in str's ordering (byte-wise lexicographic)
StrLessEq(a, b) ==
    IF a = << >> THEN TRUE
    ELSE IF b = << >> THEN FALSE
    ELSE IF Head(a) # Head(b) THEN CharCode(Head(a)) < CharCode(Head(b))
    ELSE StrLessEq(Tail(a), Tail(b))

Whitespace == {" ", "\n"}
RECURSIVE TrimStart(_)
TrimStart(s) == IF s # << >> /\ Head(s) \in Whitespace THEN TrimStart(Tail(s)) ELSE s
RECURSIVE TrimEnd(_)
TrimEnd(s) ==
    IF s # << >> /\ s[Len(s)] \in Whitespace THEN TrimEnd(SubSeq(s, 1, Len(s) - 1)) ELSE s
\* str::trim
Trim(s) == TrimEnd(TrimStart(s))

RECURSIVE Replace(_, _)
\* str::replace(code, ""): the text without the occurrences of the
\* two-character code, found left to right
Replace(s, code) ==
    IF Len(s) < 2 THEN s
    ELSE IF SubSeq(s, 1, 2) = code THEN Replace(SubSeq(s, 3, Len(s)), code)
    ELSE <<Head(s)>> \o Replace(Tail(s), code)

\* the field codes in the order parse_desktop_file removes them
FieldCodes == << "f", "F", "u", "U", "d", "D", "n", "N", "k", "v" >>
RECURSIVE StripFieldCodes(_, _)
StripFieldCodes(s, k) ==
    IF k > Len(FieldCodes) THEN s
    ELSE StripFieldCodes(Replace(s, <<"%", FieldCodes[k]>>), k + 1)

RECURSIVE Split(_, _)
\* str::split(';'): the pieces between the separators, `piece` being the
\* one under construction
Split(s, piece) ==
    IF s = << >> THEN <<piece>>
    ELSE IF Head(s) = ";" THEN <<piece>> \o Split(Tail(s), << >>)
    ELSE Split(Tail(s), Append(piece, Head(s)))
\* value.split(';').map(trim).filter(non-empty).collect()
ParseCategories(value) ==
    LET pieces == Split(value, << >>)
        trimmed == [i \in 1 .. Len(pieces) |-> Trim(pieces[i])]
    IN SelectSeq(trimmed, LAMBDA c : c # << >>)

\* a line of a descriptor is the pair split_once('=') gives, both parts
\* trimmed; a line without '=' is a key with an empty value
IsSectionHeader(line) == line.key \in {"[Desktop Entry]", "[Desktop Action New]"}

ParserNew ==
    [ name |-> << >>, generic_name |-> << >>, exec |-> << >>, icon |-> << >>,
      categories |-> << >>, no_display |-> FALSE, hidden |-> FALSE,
      in_desktop_entry |-> FALSE ]

\* one turn of the `for line in content.lines()` loop (launcher.rs:131-179)
ParseLine(p, line) ==
    LET value == Trim(line.value)
    IN IF IsSectionHeader(line)
       THEN [p EXCEPT !.in_desktop_entry = (line.key = "[Desktop Entry]")]
       ELSE IF ~p.in_desktop_entry THEN p
       ELSE CASE line.key = "Name" /\ p.name = << >> -> [p EXCEPT !.name = value]
              [] line.key = "GenericName" /\ p.generic_name = << >> ->
                    [p EXCEPT !.generic_name = value]
              [] line.key = "Exec" /\ p.exec = << >> ->
                    [p EXCEPT !.exec = Trim(StripFieldCodes(value, 1))]
              [] line.key = "Icon" /\ p.icon = << >> -> [p EXCEPT !.icon = value]
              [] line.key = "Categories" ->
                    [p EXCEPT !.categories = ParseCategories(value)]
              [] line.key = "NoDisplay" ->
                    [p EXCEPT !.no_display = (ToLowercase(value) = <<"t", "r", "u", "e">>)]
              [] line.key = "Hidden" ->
                    [p EXCEPT !.hidden = (ToLowercase(value) = <<"t", "r", "u", "e">>)]
              [] OTHER -> p

RECURSIVE ParseLines(_, _)
ParseLines(p, lines) ==
    IF lines = << >> THEN p ELSE ParseLines(ParseLine(p, Head(lines)), Tail(lines))

\* AppLauncher::parse_desktop_file (launcher.rs:118-202)
ParseDesktopFile(file) ==
    LET p == ParseLines(ParserNew, file.lines)
    IN IF p.no_display \/ p.hidden THEN None
       ELSE IF p.name = << >> \/ p.exec = << >> THEN None
       ELSE Some([ name |-> p.name, generic_name |-> p.generic_name,
                   exec |-> p.exec, icon |-> p.icon,
                   categories |-> p.categories, desktop_file |-> file.path ])

RECURSIVE ScanDirectory(_)
\* AppLauncher::scan_directory (launcher.rs:99-115): the entries of the
\* files with the desktop extension that parse, in directory order
ScanDirectory(files) ==
    IF files = << >> THEN << >>
    ELSE LET file == Head(files)
         IN (IF file.extension = "desktop" THEN ParseDesktopFile(file) ELSE << >>)
                \o ScanDirectory(Tail(files))

RECURSIVE InsertByName(_, _)
\* `sorted` with `app` put behind the entries whose folded name is not
\* greater: sort_by is stable
InsertByName(sorted, app) ==
    IF sorted = << >> THEN <<app>>
    ELSE IF StrLessEq(ToLowercase(Head(sorted).name), ToLowercase(app.name))
    THEN <<Head(sorted)>> \o InsertByName(Tail(sorted), app)
    ELSE <<app>> \o sorted
RECURSIVE SortByName(_)
SortByName(apps) ==
    IF apps = << >> THEN << >>
    ELSE InsertByName(SortByName(SubSeq(apps, 1, Len(apps) - 1)), apps[Len(apps)])

\* AppLauncher::scan_desktop_files (launcher.rs:67-96): the system
\* directories, then the user's directory `user_files`, sorted by name
ScanDesktopFiles(user_files) ==
    SortByName(ScanDirectory(InstalledFiles) \o ScanDirectory(user_files))

\* the entries the launcher finds at startup on the machine, sorted by name
Apps == ScanDesktopFiles(<< >>)

RECURSIVE FilterIndicesCaseSensitive(_, _, _)
\* the filter comparing the query with the entries' text as written
FilterIndicesCaseSensitive(apps, query, idx) ==
    IF idx >= Len(apps) THEN << >>
    ELSE LET app == At(apps, idx)
             hit == \/ StrContains(app.name, query)
                    \/ StrContains(app.generic_name, query)
                    \/ \E c \in 1 .. Len(app.categories) :
                           StrContains(app.categories[c], query)
         IN (IF hit THEN <<idx>> ELSE << >>)
                \o FilterIndicesCaseSensitive(apps, query, idx + 1)

RECURSIVE FilterIndices(_, _, _)
\* the indices idx..len-1 of the apps that match the query, ascending
FilterIndices(apps, query, idx) ==
    IF idx >= Len(apps) THEN << >>
    ELSE LET app == At(apps, idx)
             hit == \/ StrContains(ToLowercase(app.name), query)
                    \/ StrContains(ToLowercase(app.generic_name), query)
                    \/ \E c \in 1 .. Len(app.categories) :
                           StrContains(ToLowercase(app.categories[c]), query)
         IN (IF hit THEN <<idx>> ELSE << >>) \o FilterIndices(apps, query, idx + 1)

UpdateFilter(launcher) ==
    LET query == ToLowercase(launcher.search_query)
        filtered == IF query = << >>
                    THEN [i \in 1 .. Len(launcher.apps) |-> i - 1]
                    ELSE FilterIndices(launcher.apps, query, 0)
        selected == IF launcher.selected >= Len(filtered) /\ Len(filtered) # 0
                    THEN Len(filtered) - 1
                    ELSE launcher.selected
    IN [launcher EXCEPT !.filtered = filtered, !.selected = selected]

\* AppLauncher::new (launcher.rs:51-64); `user_files` are the descriptors
\* in the user's directory
AppLauncherNew(user_files) ==
    UpdateFilter([ apps |-> ScanDesktopFiles(user_files),
                   search_query |-> << >>, filtered |-> << >>,
                   selected |-> 0, visible |-> FALSE ])

LauncherToggle(launcher) ==
    IF ~launcher.visible
    THEN UpdateFilter([launcher EXCEPT !.visible = TRUE,
                                       !.search_query = << >>,
                                       !.selected = 0])
    ELSE [launcher EXCEPT !.visible = FALSE]

LauncherShow(launcher) ==
    UpdateFilter([launcher EXCEPT !.visible = TRUE,
                                  !.search_query = << >>,
                                  !.selected = 0])

LauncherHide(launcher) == [launcher EXCEPT !.visible = FALSE]

LauncherTypeChar(launcher, ch) ==
    UpdateFilter([launcher EXCEPT !.search_query = Append(@, ch), !.selected = 0])

\* String::pop: nothing to remove from an empty query
LauncherBackspace(launcher) ==
    UpdateFilter([launcher EXCEPT
                     !.search_query = IF Len(@) = 0 THEN @ ELSE SubSeq(@, 1, Len(@) - 1),
                     !.selected = 0])

LauncherSelectPrev(launcher) ==
    IF launcher.selected > 0
    THEN [launcher EXCEPT !.selected = @ - 1]
    ELSE launcher

\* select_next without the test against the filtered list's length
LauncherSelectNextUnguarded(launcher) ==
    [launcher EXCEPT !.selected = @ + 1]

LauncherSelectNext(launcher) ==
    IF launcher.selected + 1 < Len(launcher.filtered)
    THEN [launcher EXCEPT !.selected = @ + 1]
    ELSE launcher

\* handle_click(x, y): Some(exec) when the click selects an application
LauncherHandleClick(launcher, x, y) ==
    LET output_w == LauncherOutputW
        output_h == LauncherOutputH
        launcher_w == Min(LauncherMaxW, output_w - LauncherMarginW)
        launcher_h == Min(LauncherMaxH, output_h - LauncherMarginH)
        launcher_x == TruncDiv(output_w - launcher_w, 2)
        launcher_y == TruncDiv(output_h - launcher_h, 2)
        items_start_y == launcher_y + LauncherPad + LauncherSearchBarH + LauncherPad
        item_w == TruncDiv(launcher_w - 2 * LauncherGridInset, LauncherCols)
        col == TruncDiv(x - AsF64(launcher_x + LauncherGridInset), AsF64(item_w))
        row == TruncDiv(y - AsF64(items_start_y), AsF64(LauncherItemH))
        clicked_idx == row * LauncherCols + col
    IN IF ~launcher.visible THEN None
       ELSE IF \/ x < AsF64(launcher_x) \/ x > AsF64(launcher_x + launcher_w)
               \/ y < AsF64(launcher_y) \/ y > AsF64(launcher_y + launcher_h)
            THEN None
       ELSE IF y < AsF64(items_start_y) THEN None
       ELSE IF col < 0 \/ col >= LauncherCols \/ row < 0 \/ row >= LauncherRows
            THEN None
       ELSE IF clicked_idx < Len(launcher.filtered)
            THEN Some(At(launcher.apps, At(launcher.filtered, clicked_idx)).exec)
            ELSE None

\* StatusPanel::handle_click (panel.rs:217-225): true for the heyOS button
PanelHandleClick(x, y) == x < AsF64(PanelButtonW)

----------------------------------------------------------------------------
(* StatusPanel (panel.rs:23-226).  `sys` is the machine: its wall clock,   *)
(* /sys/class/power_supply and /sys/class/net.                             *)

DigitValue(c) == (CHOOSE i \in 1 .. 10 : Digits[i] = c) - 1
RECURSIVE ParseDigits(_, _)
ParseDigits(s, acc) ==
    IF s = << >> THEN acc ELSE ParseDigits(Tail(s), 10 * acc + DigitValue(Head(s)))
\* str::parse::<i32> of a text of a few characters: an optional sign and
\* at least one digit, nothing else
ParseI32(s) ==
    LET signed == s # << >> /\ Head(s) \in {"-", "+"}
        digits == IF signed THEN Tail(s) ELSE s
    IN IF digits = << >> \/ \E i \in 1 .. Len(digits) : digits[i] \notin Range(Digits)
       THEN None
       ELSE IF signed /\ Head(s) = "-" THEN Some(0 - ParseDigits(digits, 0))
       ELSE Some(ParseDigits(digits, 0))

StartsWith(s, prefix) ==
    Len(s) >= Len(prefix) /\ SubSeq(s, 1, Len(prefix)) = prefix

\* now.format("%a %b %d  %H:%M"): the text changes with the minute
ClockText(now) == <<"minute", now \div SecondsPerMinute>>

\* StatusPanel::read_battery_sysfs (panel.rs:107-120)
ReadBatterySysfs(panel, dir) ==
    LET capacity == IF IsSome(dir.capacity)
                    THEN ParseI32(Trim(Unwrap(dir.capacity))) ELSE None
        percent == IF IsSome(capacity) THEN Clamp(Unwrap(capacity), 0, 100)
                   ELSE panel.battery_percent
        charging == IF IsSome(dir.status)
                    THEN ToLowercase(Trim(Unwrap(dir.status)))
                            \in {Charging, Full}
                    ELSE panel.battery_charging
    IN [panel EXCEPT !.battery_percent = percent, !.battery_charging = charging]

\* update_battery that leaves the percentage alone when no battery is found
UpdateBatteryKeepsPercent(panel, sys) ==
    IF ~IsSome(sys.bat0)
    THEN IF ~IsSome(sys.bat1) THEN panel
         ELSE ReadBatterySysfs(panel, Unwrap(sys.bat1))
    ELSE ReadBatterySysfs(panel, Unwrap(sys.bat0))

\* StatusPanel::update_battery (panel.rs:89-104)
UpdateBattery(panel, sys) ==
    IF ~IsSome(sys.bat0)
    THEN IF ~IsSome(sys.bat1) THEN [panel EXCEPT !.battery_percent = -1]
         ELSE ReadBatterySysfs(panel, Unwrap(sys.bat1))
    ELSE ReadBatterySysfs(panel, Unwrap(sys.bat0))

RECURSIVE FirstUp(_)
\* the loop of update_network (panel.rs:128-154): the first entry, other
\* than lo, whose operstate reads "up" and whose name has a known prefix
FirstUp(entries) ==
    IF entries = << >> THEN None
    ELSE LET entry == Head(entries)
             up == /\ entry.name # <<"l", "o">>
                   /\ IsSome(entry.operstate)
                   /\ Trim(Unwrap(entry.operstate)) = <<"u", "p">>
         IN IF up /\ StartsWith(entry.name, <<"w", "l">>)
            THEN Some(<<"WiFi", entry.name>>)
            ELSE IF up /\ (\/ StartsWith(entry.name, <<"e", "n">>)
                            \/ StartsWith(entry.name, <<"e", "t", "h">>))
            THEN Some(<<"Ethernet", entry.name>>)
            ELSE FirstUp(Tail(entries))

\* StatusPanel::update_network (panel.rs:123-159)
UpdateNetwork(panel, sys) ==
    LET found == IF IsSome(sys.net) THEN FirstUp(Unwrap(sys.net)) ELSE None
    IN IF IsSome(found)
       THEN [panel EXCEPT !.network_status = Unwrap(found)[1],
                          !.network_name = Unwrap(found)[2]]
       ELSE [panel EXCEPT !.network_status = "Disconnected",
                          !.network_name = << >>]

\* update without the once-per-second early return
StatusPanelUpdateEveryCall(panel, sys) ==
    UpdateNetwork(
      UpdateBattery([panel EXCEPT !.last_update_sec = sys.now,
                                  !.clock_text = ClockText(sys.now)], sys),
      sys)

\* StatusPanel::update (panel.rs:68-86)
StatusPanelUpdate(panel, sys) ==
    IF sys.now = panel.last_update_sec THEN panel
    ELSE UpdateNetwork(
           UpdateBattery([panel EXCEPT !.last_update_sec = sys.now,
                                       !.clock_text = ClockText(sys.now)], sys),
           sys)

\* StatusPanel::new (panel.rs:54-65)
StatusPanelNew(sys) ==
    StatusPanelUpdate([ clock_text |-> << >>, last_update_sec |-> 0,
                        battery_percent |-> -1, battery_charging |-> FALSE,
                        network_status |-> "Unknown", network_name |-> << >> ],
                      sys)

\* StatusPanel::battery_text (panel.rs:179-198)
BatteryText(panel) ==
    IF panel.battery_percent < 0 THEN <<"AC">>
    ELSE LET icon == IF panel.battery_charging THEN "charging"
                     ELSE IF panel.battery_percent > 80 THEN "full"
                     ELSE IF panel.battery_percent > 60 THEN "high"
                     ELSE IF panel.battery_percent > 40 THEN "half"
                     ELSE IF panel.battery_percent > 20 THEN "low"
                     ELSE "!"
         IN <<icon, panel.battery_percent>>

----------------------------------------------------------------------------
(* Seat (smithay), as the core uses it.  keyboard.input forwards a key to  *)
(* the seat's keyboard focus; pointer.motion(Some(surface)) makes that     *)
(* surface the pointer focus and sends it the motion; pointer.button and   *)
(* pointer.axis go to the pointer focus.  A message is [msg, to], `to` an  *)
(* Option of the receiving toplevel; nothing is sent without a focus.       *)

SeatNew == [keyboard_focus |-> None, pointer_focus |-> None]

SendTo(focus, msg) == IF IsSome(focus) THEN << [msg |-> msg, to |-> focus] >> ELSE << >>

\* a destroyed surface receives nothing: a focus that names it is as good as none
SeatForget(seat, surface) ==
    [ keyboard_focus |-> IF seat.keyboard_focus = Some(surface) THEN None
                         ELSE seat.keyboard_focus,
      pointer_focus |-> IF seat.pointer_focus = Some(surface) THEN None
                        ELSE seat.pointer_focus ]

Effect(handler, filter, actions, calls, msgs) ==
    [handler |-> handler, filter |-> filter, actions |-> actions,
     calls |-> calls, msgs |-> msgs]

NoEffect == Effect("none", "None", << >>, << >>, << >>)

----------------------------------------------------------------------------
(* HeyDM (state.rs:68-139) *)

HeyDMNew(output_size, sys) ==
    [ window_manager |-> WindowManagerNew,
      launcher |-> AppLauncherNew(sys.user_applications),
      panel |-> StatusPanelNew(sys),
      output_size |-> output_size,
      loop_signal |-> [stop |-> FALSE],
      seat |-> SeatNew ]

----------------------------------------------------------------------------
(* InputHandler (input.rs:33-271).  A handler maps the state and its event *)
(* to [st |-> the state after, eff |-> what it did].                       *)

\* check_compositor_binding that tests Alt+F4 whether or not logo is held
CheckCompositorBindingAltFirst(modifiers, keysym) ==
    IF "alt" \in modifiers /\ keysym = "F4"
    THEN Some("CloseWindow")
    ELSE IF "logo" \in modifiers
    THEN CASE keysym = "Return" -> Some("SpawnTerminal")
           [] keysym \in {"d", "D"} -> Some("ToggleLauncher")
           [] keysym \in {"q", "Q"} -> Some("CloseWindow")
           [] keysym \in {"f", "F"} -> Some("ToggleFullscreen")
           [] keysym = "Left" -> Some("TileLeft")
           [] keysym = "Right" -> Some("TileRight")
           [] keysym = "Tab" -> Some("CycleFocus")
           [] OTHER -> IF "shift" \in modifiers /\ keysym \in {"e", "E"}
                       THEN Some("ExitCompositor")
                       ELSE None
    ELSE None

CheckCompositorBinding(modifiers, keysym) ==
    IF "logo" \in modifiers
    THEN CASE keysym = "Return" -> Some("SpawnTerminal")
           [] keysym \in {"d", "D"} -> Some("ToggleLauncher")
           [] keysym \in {"q", "Q"} -> Some("CloseWindow")
           [] keysym \in {"f", "F"} -> Some("ToggleFullscreen")
           [] keysym = "Left" -> Some("TileLeft")
           [] keysym = "Right" -> Some("TileRight")
           [] keysym = "Tab" -> Some("CycleFocus")
           [] OTHER -> IF "shift" \in modifiers /\ keysym \in {"e", "E"}
                       THEN Some("ExitCompositor")
                       ELSE None
    ELSE IF "alt" \in modifiers /\ keysym = "F4"
         THEN Some("CloseWindow")
         ELSE None

\* execute_action: [st, calls, msgs]
ExecuteAction(st, action) ==
    LET wm == st.window_manager IN
    CASE action = "SpawnTerminal" ->
            [st |-> st, calls |-> << >>,
             msgs |-> << [msg |-> "spawn", to |-> Some("alacritty")] >>]
      [] action = "ToggleLauncher" ->
            [st |-> [st EXCEPT !.launcher = LauncherToggle(@)],
             calls |-> <<"launcher.toggle">>, msgs |-> << >>]
      [] action = "CloseWindow" ->
            [st |-> [st EXCEPT !.window_manager = CloseFocused(@)],
             calls |-> <<"close_focused">>, msgs |-> CloseFocusedMsgs(wm)]
      [] action = "ToggleFullscreen" ->
            [st |-> [st EXCEPT !.window_manager = ToggleFullscreen(@, st.output_size)],
             calls |-> <<"toggle_fullscreen">>, msgs |-> << >>]
      [] action = "TileLeft" ->
            [st |-> [st EXCEPT !.window_manager = TileLeft(@, st.output_size)],
             calls |-> <<"tile_left">>, msgs |-> << >>]
      [] action = "TileRight" ->
            [st |-> [st EXCEPT !.window_manager = TileRight(@, st.output_size)],
             calls |-> <<"tile_right">>, msgs |-> << >>]
      [] action = "CycleFocus" ->
            [st |-> [st EXCEPT !.window_manager = CycleFocus(@)],
             calls |-> <<"cycle_focus">>, msgs |-> << >>]
      [] action = "ExitCompositor" ->
            [st |-> [st EXCEPT !.loop_signal.stop = TRUE],
             calls |-> <<"loop_signal.stop">>, msgs |-> << >>]

InputHandleKeyboard(st, modifiers, keysym, key_state) ==
    LET binding == CheckCompositorBinding(modifiers, keysym) IN
    IF key_state = "Pressed" /\ IsSome(binding)
    THEN LET done == ExecuteAction(st, Unwrap(binding)) IN
         [st |-> done.st,
          eff |-> Effect("keyboard", "Intercept", <<Unwrap(binding)>>,
                         done.calls, done.msgs)]
    ELSE [st |-> st,
          eff |-> Effect("keyboard", "Forward", << >>, << >>,
                         SendTo(st.seat.keyboard_focus, "key"))]

\* pointer.motion(state, Some((surface, surface_pos)), &MotionEvent { location, .. })
\* when a surface is under pos; the message records the call's arguments
ForwardMotion(st, pos, handler, calls) ==
    LET under == SurfaceUnder(st.window_manager, pos) IN
    IF IsSome(under)
    THEN [st |-> [st EXCEPT !.seat.pointer_focus = Some(Unwrap(under).surface)],
          eff |-> Effect(handler, "None", << >>, calls \o <<"surface_under">>,
                         << [msg |-> "motion", to |-> Some(Unwrap(under).surface),
                             surface_pos |-> Unwrap(under).relative_pos,
                             location |-> pos] >>)]
    ELSE [st |-> st,
          eff |-> Effect(handler, "None", << >>, calls \o <<"surface_under">>, << >>)]

\* handle_pointer_motion that goes on to surface_under whatever the grab
\* handling returned
InputHandlePointerMotionNoReturn(st, delta) ==
    LET moved == UpdateCursorRelative(st.window_manager, delta[1], delta[2],
                                      st.output_size)
        new_pos == moved.cursor_pos
        calls == <<"update_cursor_relative", "handle_pointer_motion">>
    IN ForwardMotion([st EXCEPT !.window_manager = HandlePointerMotion(moved, new_pos)],
                     new_pos, "pointer_motion", calls)

InputHandlePointerMotion(st, delta) ==
    LET moved == UpdateCursorRelative(st.window_manager, delta[1], delta[2],
                                      st.output_size)
        new_pos == moved.cursor_pos
        calls == <<"update_cursor_relative", "handle_pointer_motion">>
    IN IF GrabConsumes(moved)
       THEN [st |-> [st EXCEPT !.window_manager = HandlePointerMotion(moved, new_pos)],
             eff |-> Effect("pointer_motion", "None", << >>, calls, << >>)]
       ELSE ForwardMotion([st EXCEPT !.window_manager = moved], new_pos,
                          "pointer_motion", calls)

InputHandlePointerMotionAbsolute(st, pos) ==
    ForwardMotion([st EXCEPT !.window_manager = SetCursorPosition(@, pos[1], pos[2])],
                  pos, "pointer_motion_absolute", <<"set_cursor_position">>)

\* pointer.button(..): to the pointer focus
ForwardButton(st, calls) ==
    [st |-> st,
     eff |-> Effect("pointer_button", "None", << >>, calls,
                    SendTo(st.seat.pointer_focus, "button"))]

\* handle_pointer_button that forwards a press without calling focus_at
InputHandlePointerButtonNoFocus(st, button_state) ==
    LET cursor_pos == st.window_manager.cursor_pos
        app == LauncherHandleClick(st.launcher, cursor_pos[1], cursor_pos[2])
    IN IF button_state # "Pressed" THEN ForwardButton(st, << >>)
       ELSE IF cursor_pos[2] < AsF64(PanelBand)
            THEN [st |-> st,
                  eff |-> Effect("pointer_button", "None", << >>,
                                 <<"panel.handle_click">>, << >>)]
       ELSE IF st.launcher.visible /\ IsSome(app)
            THEN [st |-> [st EXCEPT !.launcher = LauncherHide(@)],
                  eff |-> Effect("pointer_button", "None", << >>,
                                 <<"launcher.handle_click", "launcher.hide">>,
                                 << [msg |-> "spawn", to |-> app] >>)]
       ELSE ForwardButton(st, << >>)

\* handle_pointer_button without the panel band test
InputHandlePointerButtonNoPanel(st, button_state) ==
    LET cursor_pos == st.window_manager.cursor_pos
        app == LauncherHandleClick(st.launcher, cursor_pos[1], cursor_pos[2])
    IN IF button_state # "Pressed" THEN ForwardButton(st, << >>)
       ELSE IF st.launcher.visible /\ IsSome(app)
            THEN [st |-> [st EXCEPT !.launcher = LauncherHide(@)],
                  eff |-> Effect("pointer_button", "None", << >>,
                                 <<"launcher.handle_click", "launcher.hide">>,
                                 << [msg |-> "spawn", to |-> app] >>)]
       ELSE ForwardButton(
                [st EXCEPT !.window_manager = FocusAt(@, cursor_pos)],
                (IF st.launcher.visible THEN <<"launcher.handle_click">> ELSE << >>)
                    \o <<"focus_at">>)

\* handle_pointer_button whose panel band test also swallows releases
InputHandlePointerButtonPanelFirst(st, button_state) ==
    LET cursor_pos == st.window_manager.cursor_pos
        app == LauncherHandleClick(st.launcher, cursor_pos[1], cursor_pos[2])
    IN IF cursor_pos[2] < AsF64(PanelBand)
       THEN [st |-> st,
             eff |-> Effect("pointer_button", "None", << >>,
                            <<"panel.handle_click">>, << >>)]
       ELSE IF button_state # "Pressed" THEN ForwardButton(st, << >>)
       ELSE IF st.launcher.visible /\ IsSome(app)
            THEN [st |-> [st EXCEPT !.launcher = LauncherHide(@)],
                  eff |-> Effect("pointer_button", "None", << >>,
                                 <<"launcher.handle_click", "launcher.hide">>,
                                 << [msg |-> "spawn", to |-> app] >>)]
       ELSE ForwardButton(
                [st EXCEPT !.window_manager = FocusAt(@, cursor_pos)],
                (IF st.launcher.visible THEN <<"launcher.handle_click">> ELSE << >>)
                    \o <<"focus_at">>)

InputHandlePointerButton(st, button_state) ==
    LET cursor_pos == st.window_manager.cursor_pos
        app == LauncherHandleClick(st.launcher, cursor_pos[1], cursor_pos[2])
    IN IF button_state # "Pressed" THEN ForwardButton(st, << >>)
       ELSE IF cursor_pos[2] < AsF64(PanelBand)
            THEN [st |-> st,
                  eff |-> Effect("pointer_button", "None", << >>,
                                 <<"panel.handle_click">>, << >>)]
       ELSE IF st.launcher.visible /\ IsSome(app)
            THEN [st |-> [st EXCEPT !.launcher = LauncherHide(@)],
                  eff |-> Effect("pointer_button", "None", << >>,
                                 <<"launcher.handle_click", "launcher.hide">>,
                                 << [msg |-> "spawn", to |-> app] >>)]
       ELSE ForwardButton(
                [st EXCEPT !.window_manager = FocusAt(@, cursor_pos)],
                (IF st.launcher.visible THEN <<"launcher.handle_click">> ELSE << >>)
                    \o <<"focus_at">>)

InputHandlePointerAxis(st) ==
    [st |-> st,
     eff |-> Effect("pointer_axis", "None", << >>, << >>,
                    SendTo(st.seat.pointer_focus, "axis"))]

----------------------------------------------------------------------------
(* XdgShellHandler for HeyDM (state.rs:313-339) *)

NewToplevel(st, surface) ==
    [st |-> [st EXCEPT !.window_manager = AddWindow(@, surface, st.output_size)],
     eff |-> Effect("new_toplevel", "None", << >>, <<"add_window">>,
                    << [msg |-> "configure", to |-> Some(surface)] >>)]

ToplevelDestroyed(st, surface) ==
    [st |-> [st EXCEPT !.window_manager = RemoveWindow(@, surface),
                       !.seat = SeatForget(@, surface)],
     eff |-> Effect("toplevel_destroyed", "None", << >>, <<"remove_window">>, << >>)]

----------------------------------------------------------------------------
(* Renderer (render.rs:13-154).  render_frame borrows the state immutably  *)
(* and issues frame.clear(color, rects) commands; a frame is the sequence  *)
(* of the commands of one pass, each a colour and its rectangles.  Colours *)
(* are in hundredths, a rectangle is <<x, y, w, h>>.                        *)

colors ==
    [ BG_DARK          |-> <<4, 4, 6, 100>>,
      PANEL_BG         |-> <<8, 8, 12, 95>>,
      ACCENT_CRIMSON   |-> <<83, 23, 28, 100>>,
      ACCENT_CYAN      |-> <<29, 70, 83, 100>>,
      LAUNCHER_BG      |-> <<6, 6, 9, 98>>,
      BORDER_FOCUSED   |-> <<83, 23, 28, 100>>,
      BORDER_UNFOCUSED |-> <<15, 15, 20, 60>> ]

rect(x, y, w, h) == <<x, y, w, h>>
Clear(color, rects) == [color |-> color, rects |-> rects]

\* AppLauncher::selected_index (launcher.rs:239-245)
SelectedIndex(launcher) ==
    IF Len(launcher.filtered) = 0 THEN None ELSE Some(launcher.selected)

\* render.rs:52-71: the border of the window at idx
RenderWindow(windows, idx) ==
    LET focused_idx == IF Len(windows) = 0 THEN None ELSE Some(Len(windows) - 1)
        geom == Geometry(At(windows, idx))
        is_focused == Some(idx) = focused_idx
        border_color == IF is_focused THEN colors.BORDER_FOCUSED
                        ELSE colors.BORDER_UNFOCUSED
        b == BORDER_WIDTH
    IN Clear(border_color,
             << rect(geom.loc[1] - b, geom.loc[2] - b, geom.size[1] + 2 * b, b),
                rect(geom.loc[1] - b, geom.loc[2] + geom.size[2], geom.size[1] + 2 * b, b),
                rect(geom.loc[1] - b, geom.loc[2], b, geom.size[2]),
                rect(geom.loc[1] + geom.size[1], geom.loc[2], b, geom.size[2]) >>)

\* render.rs:73-88: the floating panel bar and its accent line
RenderPanel(output_size) ==
    LET panel_w == output_size[1] - (PANEL_MARGIN * 2)
        panel_x == PANEL_MARGIN
        panel_y == PANEL_MARGIN
    IN << Clear(colors.PANEL_BG, << rect(panel_x, panel_y, panel_w, PANEL_HEIGHT) >>),
          Clear(colors.ACCENT_CRIMSON,
                << rect(panel_x + 20, panel_y + PANEL_HEIGHT - 2, 60, 2) >>) >>

\* render.rs:116-141: the two commands of grid item i
RenderItem(launcher, lx, ly, item_w, i) ==
    LET cols == 4
        item_h == 100
        row == TruncDiv(i, cols)
        col == i % cols
        ix == lx + 30 + (col * item_w)
        iy == ly + 90 + (row * item_h)
        is_selected == SelectedIndex(launcher) = Some(i)
        item_bg == IF is_selected THEN <<83, 23, 28, 20>> ELSE <<100, 100, 100, 3>>
    IN << Clear(item_bg, << rect(ix + 5, iy + 5, item_w - 10, item_h - 10) >>),
          Clear(IF is_selected THEN colors.ACCENT_CRIMSON ELSE colors.ACCENT_CYAN,
                << rect(ix + TruncDiv(item_w, 2) - 15, iy + 20, 30, 30) >>) >>

\* render.rs:90-143: overlay, box, search bar and the grid items
RenderLauncher(launcher, output_size) ==
    LET lw == Max(Min(800, output_size[1] - 100), 0)
        lh == Max(Min(600, output_size[2] - 200), 0)
        lx == TruncDiv(output_size[1] - lw, 2)
        ly == TruncDiv(output_size[2] - lh, 2)
        item_w == TruncDiv(lw - 60, 4)
        count == Min(Len(launcher.filtered), 12)
        items == [k \in 1 .. 2 * count |->
                    RenderItem(launcher, lx, ly, item_w, (k - 1) \div 2)[2 - (k % 2)]]
    IN IF ~launcher.visible THEN << >>
       ELSE << Clear(<<0, 0, 0, 70>>, << rect(0, 0, output_size[1], output_size[2]) >>),
               Clear(colors.LAUNCHER_BG, << rect(lx, ly, lw, lh) >>),
               Clear(<<12, 12, 18, 100>>, << rect(lx + 20, ly + 20, lw - 40, 50) >>) >>
            \o items

\* render.rs:145-150: the cursor marker
RenderCursor(wm) ==
    Clear(colors.ACCENT_CYAN,
          << rect(AsI32(wm.cursor_pos[1]) - 4, AsI32(wm.cursor_pos[2]) - 4, 8, 8) >>)

\* render_frame that draws the windows from the top of the stack down
RendererRenderFrameTopFirst(st, output_size) ==
    LET windows == st.window_manager.windows
    IN << Clear(colors.BG_DARK, << rect(0, 0, output_size[1], output_size[2]) >>) >>
       \o [i \in 1 .. Len(windows) |-> RenderWindow(windows, Len(windows) - i)]
       \o RenderPanel(output_size)
       \o RenderLauncher(st.launcher, output_size)
       \o << RenderCursor(st.window_manager) >>

\* Renderer::render_frame (render.rs:38-153): the frame drawn for st
RendererRenderFrame(st, output_size) ==
    LET windows == st.window_manager.windows
    IN << Clear(colors.BG_DARK, << rect(0, 0, output_size[1], output_size[2]) >>) >>
       \o [i \in 1 .. Len(windows) |-> RenderWindow(windows, i - 1)]
       \o RenderPanel(output_size)
       \o RenderLauncher(st.launcher, output_size)
       \o << RenderCursor(st.window_manager) >>

----------------------------------------------------------------------------
(* The program: run_winit's loop (state.rs:231-272).  One iteration drains *)
(* the backend's events ("drain"), renders and submits a frame ("render"), *)
(* then dispatches the event loop's sources, where client requests arrive  *)
(* ("dispatch").  With pc = "events" the position in the loop is left      *)
(* open: the loop is running and an event of either source may be next.    *)
(* pc = "init" is the program before the loop.                             *)

\* HeyDM::run up to the call of run_winit (state.rs:93-139)
Init ==
    /\ env = Machine
    /\ state = HeyDMNew(<<InitialOutputW, InitialOutputH>>, env)
    /\ running = TRUE
    /\ pc = "init"
    /\ n_grabs = 0

\* run_winit before its loop: the output takes the backend window's size
\* (state.rs:198-199); the loop is entered at `position`
RunWinit(position) ==
    /\ pc = "init"
    /\ \E size \in OutputSizes : state' = [state EXCEPT !.output_size = size]
    /\ pc' = position
    /\ UNCHANGED <<running, n_grabs, env>>

InDrain == pc \in {"drain", "events"}
InDispatch == pc \in {"dispatch", "events"}

\* a handler ran: the state is what it returned
Handled(result) ==
    /\ state' = result.st
    /\ UNCHANGED <<running, pc, n_grabs, env>>

\* WinitEvent::Resized (state.rs:234-241)
Resized ==
    /\ InDrain
    /\ \E size \in OutputSizes :
          Handled([st |-> [state EXCEPT !.output_size = size]])

\* WinitEvent::Input, InputEvent::Keyboard (state.rs:242-244, input.rs:39-41)
Keyboard(chords) ==
    /\ InDrain
    /\ \E chord \in chords :
          Handled(InputHandleKeyboard(state, chord[1], chord[2], chord[3]))

PointerMotion ==
    /\ InDrain
    /\ \E delta \in RelDeltas : Handled(InputHandlePointerMotion(state, delta))

\* x_transformed / y_transformed scale the backend's position into the output
PointerMotionAbsolute ==
    /\ InDrain
    /\ \E pos \in AbsPoints :
          /\ pos[1] <= AsF64(state.output_size[1])
          /\ pos[2] <= AsF64(state.output_size[2])
          /\ Handled(InputHandlePointerMotionAbsolute(state, pos))

PointerButton ==
    /\ InDrain
    /\ \E button_state \in ButtonStates :
          Handled(InputHandlePointerButton(state, button_state))

PointerAxis ==
    /\ InDrain
    /\ Handled(InputHandlePointerAxis(state))

\* WinitEvent::CloseRequested (state.rs:247-251)
CloseRequested ==
    /\ InDrain
    /\ running' = FALSE
    /\ state' = [state EXCEPT !.loop_signal.stop = TRUE]
    /\ UNCHANGED <<pc, n_grabs, env>>

\* the loop without the `if !running { break; }` after the drain
EndDrainNoBreak ==
    /\ pc = "drain"
    /\ pc' = "render"
    /\ UNCHANGED <<state, running, n_grabs, env>>

\* dispatch_new_events returns; `if !running { break; }` (state.rs:254-256)
EndDrain ==
    /\ pc = "drain"
    /\ pc' = IF running THEN "render" ELSE "exited"
    /\ UNCHANGED <<state, running, n_grabs, env>>

\* bind, render_frame, finish, submit, flush_clients (state.rs:259-270)
RenderFrame ==
    /\ pc = "render"
    /\ pc' = "dispatch"
    /\ UNCHANGED <<state, running, n_grabs, env>>

XdgNewToplevel ==
    /\ InDispatch
    /\ Len(state.window_manager.windows) < MaxWindows
    /\ \E surface \in Toplevels :
          /\ ~IsSome(PositionOf(state.window_manager.windows, surface))
          /\ \A other \in Toplevels :
                other < surface => IsSome(PositionOf(state.window_manager.windows, other))
          /\ Handled(NewToplevel(state, surface))

XdgToplevelDestroyed ==
    /\ InDispatch
    /\ \E surface \in Toplevels :
          /\ IsSome(PositionOf(state.window_manager.windows, surface))
          /\ Handled(ToplevelDestroyed(state, surface))

\* show, type_char, backspace, select_prev and select_next have no caller in
\* the repository; they are taken where the launcher's key handling would
\* call them
AppLauncherShow ==
    /\ InDrain
    /\ state' = [state EXCEPT !.launcher = LauncherShow(@)]
    /\ UNCHANGED <<running, pc, n_grabs, env>>

AppLauncherHide ==
    /\ InDrain
    /\ state' = [state EXCEPT !.launcher = LauncherHide(@)]
    /\ UNCHANGED <<running, pc, n_grabs, env>>

AppLauncherTypeChar ==
    /\ InDrain
    /\ Len(state.launcher.search_query) < MaxQuery
    /\ \E ch \in QueryChars :
          state' = [state EXCEPT !.launcher = LauncherTypeChar(@, ch)]
    /\ UNCHANGED <<running, pc, n_grabs, env>>

AppLauncherBackspace ==
    /\ InDrain
    /\ state' = [state EXCEPT !.launcher = LauncherBackspace(@)]
    /\ UNCHANGED <<running, pc, n_grabs, env>>

AppLauncherSelectPrev ==
    /\ InDrain
    /\ state' = [state EXCEPT !.launcher = LauncherSelectPrev(@)]
    /\ UNCHANGED <<running, pc, n_grabs, env>>

AppLauncherSelectNext ==
    /\ InDrain
    /\ state' = [state EXCEPT !.launcher = LauncherSelectNext(@)]
    /\ UNCHANGED <<running, pc, n_grabs, env>>

\* begin_move / begin_resize / end_grab have no caller in the repository; they
\* are taken where a client's interactive move or resize request would arrive
WmBeginMove ==
    /\ InDispatch
    /\ n_grabs < MaxGrabs
    /\ state' = [state EXCEPT !.window_manager = BeginMove(@)]
    /\ n_grabs' = n_grabs + 1
    /\ UNCHANGED <<running, pc, env>>

WmBeginResize ==
    /\ InDispatch
    /\ n_grabs < MaxGrabs
    /\ state' = [state EXCEPT !.window_manager = BeginResize(@)]
    /\ n_grabs' = n_grabs + 1
    /\ UNCHANGED <<running, pc, env>>

WmEndGrab ==
    /\ InDispatch
    /\ Handled([st |-> [state EXCEPT !.window_manager = EndGrab(@)]])

\* event_loop.dispatch returns; `while running` (state.rs:232, 271)
EndDispatch ==
    /\ pc = "dispatch"
    /\ pc' = IF running THEN "drain" ELSE "exited"
    /\ UNCHANGED <<state, running, n_grabs, env>>

\* a WindowElement whose flag is set while nothing is saved: the struct
\* admits it (window.rs:24-27), no operation of the manager produces it; it
\* is given to toggle_fullscreen as an input
ForcedFullscreen ==
    /\ InDispatch
    /\ FocusedValid(state.window_manager)
    /\ ~At(state.window_manager.windows, Unwrap(state.window_manager.focused)).fullscreen
    /\ state' = [state EXCEPT
            !.window_manager.windows[Unwrap(state.window_manager.focused) + 1].fullscreen
                = TRUE]
    /\ UNCHANGED <<running, pc, n_grabs, env>>

\* the machine's clock reaches the next second
Tick ==
    /\ env.now < MaxClock
    /\ env' = [env EXCEPT !.now = @ + 1]
    /\ UNCHANGED <<state, running, pc, n_grabs>>

\* batteries are plugged in, removed, charged or drained
SysfsBattery ==
    /\ \E bat0 \in BatteryDirs, bat1 \in BatteryDirs :
          env' = [env EXCEPT !.bat0 = bat0, !.bat1 = bat1]
    /\ UNCHANGED <<state, running, pc, n_grabs>>

\* interfaces appear, go up or down
SysfsNet ==
    /\ \E net \in NetDirs : env' = [env EXCEPT !.net = net]
    /\ UNCHANGED <<state, running, pc, n_grabs>>

\* StatusPanel::update; the one call in the repository is in
\* StatusPanel::new, this one is a call by the frame code the panel is
\* written for
PanelUpdate ==
    /\ state' = [state EXCEPT !.panel = StatusPanelUpdate(@, env)]
    /\ UNCHANGED <<running, pc, n_grabs, env>>

\* before the compositor is started: a descriptor, so far empty, lies in
\* the user's applications directory and no HeyDM value exists
NotStarted ==
    /\ env = [Machine EXCEPT !.user_applications =
                << [path |-> "ed", extension |-> "desktop", lines |-> << >>] >>]
    /\ state = None
    /\ running = TRUE
    /\ pc = "new"
    /\ n_grabs = 0

\* the descriptor under scan
Descriptor == env.user_applications[1]

\* a line is written to the descriptor
WriteDescriptor ==
    /\ pc = "new"
    /\ Len(Descriptor.lines) < MaxLines
    /\ \E line \in DescriptorLines :
          env' = [env EXCEPT !.user_applications[1].lines = Append(@, line)]
    /\ UNCHANGED <<state, running, pc, n_grabs>>

\* HeyDM::run builds the state (state.rs:93-139): the launcher scans the
\* descriptors, the panel takes its first snapshot
HeyDMRun ==
    /\ pc = "new"
    /\ state' = HeyDMNew(<<InitialOutputW, InitialOutputH>>, env)
    /\ pc' = "init"
    /\ UNCHANGED <<running, n_grabs, env>>

(* Windows, focus, layout and input routing: clients create and destroy    *)
(* toplevels, the user types and uses the pointer.                         *)
\* of the layout keys, fullscreen and tile-left are enough to give windows
\* different rectangles
StackChords ==
    { <<{"logo"}, "f", "Pressed">>, <<{"logo"}, "Left", "Pressed">> }
        \cup FocusChords \cup OtherChords

Next ==
    \/ RunWinit("events")
    \/ Keyboard(StackChords)
    \/ PointerMotion
    \/ PointerMotionAbsolute
    \/ PointerButton
    \/ PointerAxis
    \/ XdgNewToplevel
    \/ XdgToplevelDestroyed

Spec == Init /\ [][Next]_vars


(* Layout under a changing output: the backend resizes the output between  *)
(* the layout keys.                                                        *)
LayoutNext ==
    \/ RunWinit("events")
    \/ Resized
    \/ Keyboard(LayoutChords \cup FocusChords)
    \/ XdgNewToplevel
    \/ XdgToplevelDestroyed

LayoutSpec == Init /\ [][LayoutNext]_vars

(* Interactive grabs: move and resize requests, relative pointer motion.   *)
GrabChords == { <<{"logo"}, "Left", "Pressed">>, <<{"logo"}, "Tab", "Pressed">> }

GrabNext ==
    \/ RunWinit("events")
    \/ Keyboard(GrabChords)
    \/ PointerMotion
    \/ WmBeginMove
    \/ WmBeginResize
    \/ WmEndGrab
    \/ XdgNewToplevel
    \/ XdgToplevelDestroyed

GrabSpec == Init /\ [][GrabNext]_vars

(* Grabs while the stack changes: begin and end requests, focus cycling,   *)
(* windows created and destroyed under a grab.                             *)
GrabLifeNext ==
    \/ RunWinit("events")
    \/ Keyboard({ <<{"logo"}, "Tab", "Pressed">> })
    \/ PointerMotion
    \/ WmBeginMove
    \/ WmBeginResize
    \/ WmEndGrab
    \/ XdgNewToplevel
    \/ XdgToplevelDestroyed

GrabLifeSpec == Init /\ [][GrabLifeNext]_vars

(* Move grabs alone, the cursor also placed at fractional positions.       *)
MoveNext ==
    \/ RunWinit("events")
    \/ PointerMotion
    \/ PointerMotionAbsolute
    \/ WmBeginMove
    \/ WmEndGrab
    \/ XdgNewToplevel

MoveSpec == Init /\ [][MoveNext]_vars

(* Resize grabs alone.                                                     *)
ResizeNext ==
    \/ RunWinit("events")
    \/ Keyboard(GrabChords)
    \/ PointerMotion
    \/ WmBeginResize
    \/ WmEndGrab
    \/ XdgNewToplevel
    \/ XdgToplevelDestroyed

ResizeSpec == Init /\ [][ResizeNext]_vars

(* Key routing: every chord of the alphabet, on any window population.     *)
KeyNext ==
    \/ RunWinit("events")
    \/ Keyboard(LayoutChords \cup FocusChords \cup OtherChords \cup ExitChords)
    \/ XdgNewToplevel
    \/ XdgToplevelDestroyed

KeySpec == Init /\ [][KeyNext]_vars

(* The cursor under relative motion, absolute motion and output resizes.   *)
CursorNext ==
    \/ RunWinit("events")
    \/ Resized
    \/ PointerMotion
    \/ PointerMotionAbsolute
    \/ PointerButton
    \/ XdgNewToplevel
    \/ XdgToplevelDestroyed

CursorSpec == Init /\ [][CursorNext]_vars

(* The launcher: its toggle key and its editing and selection operations.  *)
LauncherNext ==
    \/ RunWinit("events")
    \/ Keyboard({ <<{"logo"}, "d", "Pressed">> })
    \/ AppLauncherShow
    \/ AppLauncherHide
    \/ AppLauncherTypeChar
    \/ AppLauncherBackspace
    \/ AppLauncherSelectPrev
    \/ AppLauncherSelectNext

LauncherSpec == Init /\ [][LauncherNext]_vars

(* The loop itself: iterations, the exit key and the backend's close       *)
(* notification.                                                           *)
LoopNext ==
    \/ RunWinit("drain")
    \/ Keyboard(ExitChords \cup FocusChords)
    \/ CloseRequested
    \/ EndDrain
    \/ RenderFrame
    \/ XdgNewToplevel
    \/ XdgToplevelDestroyed
    \/ EndDispatch

LoopSpec == Init /\ [][LoopNext]_vars

(* The layout keys alone, under a changing output.                         *)
TileNext ==
    \/ RunWinit("events")
    \/ Resized
    \/ Keyboard(LayoutChords)
    \/ XdgNewToplevel
    \/ XdgToplevelDestroyed

TileSpec == Init /\ [][TileNext]_vars

(* toggle_fullscreen over every combination of the flag and the saved      *)
(* geometry.                                                               *)
ForcedNext ==
    \/ RunWinit("events")
    \/ Resized
    \/ Keyboard({ <<{"logo"}, "f", "Pressed">>, <<{"logo"}, "Tab", "Pressed">> })
    \/ ForcedFullscreen
    \/ XdgNewToplevel
    \/ XdgToplevelDestroyed

ForcedSpec == Init /\ [][ForcedNext]_vars

(* The launcher's scan at startup, over the descriptors a file of at most  *)
(* MaxLines lines can be.                                                  *)
ScanNext ==
    \/ WriteDescriptor
    \/ HeyDMRun

ScanSpec == NotStarted /\ [][ScanNext]_vars

(* The loop's iterations while the machine's clock advances; an iteration  *)
(* that has begun goes on to its end.                                      *)
FrameNext ==
    \/ RunWinit("drain")
    \/ Keyboard(ExitChords \cup FocusChords)
    \/ CloseRequested
    \/ EndDrain
    \/ RenderFrame
    \/ XdgNewToplevel
    \/ XdgToplevelDestroyed
    \/ EndDispatch
    \/ Tick

FrameSpec ==
    /\ Init
    /\ [][FrameNext]_vars
    /\ WF_vars(RunWinit("drain"))
    /\ WF_vars(EndDrain)
    /\ WF_vars(RenderFrame)
    /\ WF_vars(EndDispatch)

(* The panel's snapshot against a changing machine.                        *)
PanelNext ==
    \/ Tick
    \/ SysfsBattery
    \/ SysfsNet
    \/ PanelUpdate

PanelSpec == Init /\ [][PanelNext]_vars

(* The frames of the loop: input and resizes are drained, a frame is drawn *)
(* from the state they leave, clients create and destroy toplevels in the  *)
(* dispatch that follows.                                                  *)
DrawNext ==
    \/ RunWinit("drain")
    \/ Resized
    \/ Keyboard({ <<{"logo"}, "d", "Pressed">>, <<{"logo"}, "Tab", "Pressed">> })
    \/ PointerMotionAbsolute
    \/ PointerButton
    \/ EndDrain
    \/ RenderFrame
    \/ XdgNewToplevel
    \/ XdgToplevelDestroyed
    \/ EndDispatch

DrawSpec == Init /\ [][DrawNext]_vars

(* The stack under every operation that reorders it: clients add and       *)
(* remove windows, presses focus the window under the cursor, Super+Tab    *)
(* cycles.                                                                 *)
StackNext ==
    \/ RunWinit("events")
    \/ Resized
    \/ Keyboard({ <<{"logo"}, "Tab", "Pressed">> })
    \/ PointerMotionAbsolute
    \/ PointerButton
    \/ XdgNewToplevel
    \/ XdgToplevelDestroyed

StackSpec == Init /\ [][StackNext]_vars

(* Fullscreen windows under grabs: Super+F sets and clears the flag, a     *)
(* grab begins on the focused window, the pointer moves.                   *)
FullscreenNext ==
    \/ RunWinit("events")
    \/ Keyboard({ <<{"logo"}, "f", "Pressed">> })
    \/ PointerMotion
    \/ WmBeginMove
    \/ WmBeginResize
    \/ XdgNewToplevel

FullscreenSpec == Init /\ [][FullscreenNext]_vars


----------------------------------------------------------------------------
(* Properties *)

WM == state.window_manager
StackOf(wm) == [i \in 1 .. Len(wm.windows) |-> wm.windows[i].toplevel]
FocusedWindow(wm) == At(wm.windows, Unwrap(wm.focused))

\* points at which operations are probed: the backend's points, the corners of
\* the outputs, and a grid across the largest output
ProbePoints ==
    AbsPoints
    \cup { <<AsF64(size[1]), AsF64(size[2])>> : size \in OutputSizes }
    \cup { <<AsF64(x), AsF64(y)>> : x \in {0, 200, 700, 961, 1500},
                                    y \in {10, 31, 32, 300, 900} }

\* C1: `focused` is None exactly when there is no window, and otherwise is an
\* index below the number of windows.
C1_FocusedIffNonEmpty ==
    /\ (WM.focused = None) <=> (Len(WM.windows) = 0)
    /\ IsSome(WM.focused) =>
          (Unwrap(WM.focused) >= 0 /\ Unwrap(WM.focused) < Len(WM.windows))

\* a removal has renormalised the focus: toplevel 2 is alone, so toplevel 1 was
\* removed from under it, and it is focused at index 0
C1_Witness ==
    /\ StackOf(WM) = <<2>>
    /\ WM.focused = Some(0)

\* C2 as claimed: focus_at(p) with p inside the box of any managed window W
\* leaves W last in the stack and focused.
C2_FocusAtAnyContaining ==
    \A p \in ProbePoints : \A i \in Indices(WM.windows) :
        ContainsPoint(At(WM.windows, i), p) =>
            LET after == FocusAt(WM, p) IN
            /\ At(after.windows, Len(after.windows) - 1).toplevel
                   = At(WM.windows, i).toplevel
            /\ after.focused = Some(Len(after.windows) - 1)

\* C2 as amended: focus_at(p) leaves W last in the stack and focused when W is
\* the highest window of the stack whose box contains p; the other windows keep
\* their relative order.
C2_FocusAtTopmostContaining ==
    \A p \in ProbePoints : \A i \in Indices(WM.windows) :
        ( /\ ContainsPoint(At(WM.windows, i), p)
          /\ \A j \in Indices(WM.windows) :
                j > i => ~ContainsPoint(At(WM.windows, j), p) ) =>
            LET after == FocusAt(WM, p) IN
            /\ after.windows = Append(RemoveAt(WM.windows, i), At(WM.windows, i))
            /\ after.focused = Some(Len(after.windows) - 1)

\* the window at the bottom is the highest one containing the cursor, and a
\* window lies above it: focus_at at the cursor reorders the stack
C2_Witness ==
    /\ Len(WM.windows) = 2
    /\ WM.cursor_pos \in ProbePoints
    /\ ContainsPoint(At(WM.windows, 0), WM.cursor_pos)
    /\ ~ContainsPoint(At(WM.windows, 1), WM.cursor_pos)
    /\ StackOf(FocusAt(WM, WM.cursor_pos)) = <<StackOf(WM)[2], StackOf(WM)[1]>>

\* the scenario's first half, from a state without windows: W1 then W2 are
\* created
TwoCreated(st) == NewToplevel(NewToplevel(st, 1).st, 2).st
CreatesStackedPair(st) ==
    /\ StackOf(TwoCreated(st).window_manager) = <<1, 2>>
    /\ TwoCreated(st).window_manager.focused = Some(1)
    /\ FocusedWindow(TwoCreated(st).window_manager).toplevel = 2

\* a press can reach focus_at for the lower window W1 of a stack [W1, W2]
PressOverLower(st) ==
    /\ Len(st.window_manager.windows) = 2
    /\ st.window_manager.focused = Some(1)
    /\ ~st.launcher.visible
    /\ st.window_manager.cursor_pos[2] >= AsF64(PanelBand)
    /\ ContainsPoint(At(st.window_manager.windows, 0), st.window_manager.cursor_pos)
Pressed(st) == InputHandlePointerButton(st, "Pressed").st
Swapped(before, after) ==
    /\ StackOf(after.window_manager)
          = <<StackOf(before.window_manager)[2], StackOf(before.window_manager)[1]>>
    /\ after.window_manager.focused = Some(1)

\* C3 as claimed: W1 then W2 created gives [W1, W2] with W2 focused, and a press
\* with the cursor inside W1's box (below the panel band, launcher hidden) gives
\* [W2, W1] with W1 focused.
C3_ClickLowerSwaps ==
    /\ Len(WM.windows) = 0 /\ pc # "init" => CreatesStackedPair(state)
    /\ PressOverLower(state) => Swapped(state, Pressed(state))

\* C3 as amended: ... a press with the cursor inside W1's box and outside W2's
\* box gives [W2, W1] with W1 focused; with the cursor inside both boxes (as for
\* two windows just created on the same output, which occupy the same
\* rectangle) the stack stays [W1, W2] with W2 focused.
C3_ClickLowerOutsideUpperSwaps ==
    /\ Len(WM.windows) = 0 /\ pc # "init" =>
          /\ CreatesStackedPair(state)
          /\ At(TwoCreated(state).window_manager.windows, 0).position
                = At(TwoCreated(state).window_manager.windows, 1).position
          /\ At(TwoCreated(state).window_manager.windows, 0).size
                = At(TwoCreated(state).window_manager.windows, 1).size
    /\ PressOverLower(state) =>
          IF ContainsPoint(At(WM.windows, 1), WM.cursor_pos)
          THEN Pressed(state).window_manager = WM
          ELSE Swapped(state, Pressed(state))

\* W1 below W2, the cursor inside W1 only: the press swaps them
C3_Witness ==
    /\ PressOverLower(state)
    /\ StackOf(WM) = <<1, 2>>
    /\ ~ContainsPoint(At(WM.windows, 1), WM.cursor_pos)
    /\ StackOf(Pressed(state).window_manager) = <<2, 1>>

RECURSIVE CycleTimes(_, _)
CycleTimes(wm, k) == IF k = 0 THEN wm ELSE CycleFocus(CycleTimes(wm, k - 1))

\* C4: with N > 1 windows, N successive cycle_focus calls focus every window,
\* and after each call the focused window is the last of the stack; with
\* N <= 1 windows cycle_focus changes nothing.
C4_CycleVisitsAll ==
    LET n == Len(WM.windows) IN
    IF n > 1
    THEN /\ { FocusedWindow(CycleTimes(WM, k)).toplevel : k \in 1 .. n }
               = { WM.windows[i].toplevel : i \in 1 .. n }
         /\ \A k \in 1 .. n :
               /\ CycleTimes(WM, k).focused = Some(n - 1)
               /\ Len(CycleTimes(WM, k).windows) = n
               /\ FocusedWindow(CycleTimes(WM, k)).toplevel
                     = At(CycleTimes(WM, k - 1).windows, 0).toplevel
    ELSE CycleFocus(WM) = WM

\* the stack is full and its windows differ in geometry, so a cycle is visible
C4_Witness ==
    /\ Len(WM.windows) = MaxWindows
    /\ StackOf(WM) = <<2, 1>>
    /\ At(WM.windows, 0).fullscreen
    /\ ~At(WM.windows, 1).fullscreen
    /\ StackOf(CycleFocus(WM)) = <<1, 2>>


\* C5: for a focused window that is not fullscreen, two consecutive
\* toggle_fullscreen calls restore exactly its position and size and leave it
\* not fullscreen, whatever the output bounds of either call; the first call
\* makes it fullscreen at the origin with the first call's bounds as its size.
C5_ToggleTwiceRestores ==
    (FocusedValid(WM) /\ ~FocusedWindow(WM).fullscreen) =>
        \A b1 \in OutputSizes : \A b2 \in OutputSizes :
            LET once == ToggleFullscreen(WM, b1)
                twice == ToggleFullscreen(once, b2)
            IN /\ FocusedWindow(once).fullscreen
               /\ FocusedWindow(once).position = <<0, 0>>
               /\ FocusedWindow(once).size = b1
               /\ FocusedWindow(twice).position = FocusedWindow(WM).position
               /\ FocusedWindow(twice).size = FocusedWindow(WM).size
               /\ ~FocusedWindow(twice).fullscreen
               /\ twice.focused = WM.focused
               /\ Len(twice.windows) = Len(WM.windows)

\* the focused window is not fullscreen, is no longer where it was created, and
\* still carries a geometry saved by an earlier toggle_fullscreen that differs
\* from its present one: the next two toggles must restore the present one
C5_Witness ==
    /\ FocusedValid(WM)
    /\ ~FocusedWindow(WM).fullscreen
    /\ IsSome(FocusedWindow(WM).saved_geometry)
    /\ Unwrap(FocusedWindow(WM).saved_geometry) # Geometry(FocusedWindow(WM))
    /\ FocusedWindow(WM).size # <<DefaultW, DefaultH>>
    /\ state.output_size # <<InitialOutputW, InitialOutputH>>

\* C6 as claimed: for every window, saved_geometry is present only if the
\* window's fullscreen flag is true.
C6_SavedOnlyIfFullscreen ==
    \A i \in Indices(WM.windows) :
        IsSome(At(WM.windows, i).saved_geometry) => At(WM.windows, i).fullscreen

\* cursor positions for grab motion: the probe points and points far outside
\* the outputs on either side
MotionProbes ==
    ProbePoints
    \cup { <<AsF64(x), AsF64(y)>> : x \in {-5000, 0, 5000}, y \in {-5000, 0, 5000} }

\* C7: while a Resize grab is active, handle_pointer_motion with any cursor
\* position leaves the grabbed window at least 200 wide and 150 high, and
\* reports the motion as consumed.
C7_ResizeNeverBelowMinimum ==
    (IsSome(WM.grab) /\ Unwrap(WM.grab).kind = "Resize") =>
        /\ GrabConsumes(WM)
        /\ \A p \in MotionProbes :
              LET after == HandlePointerMotion(WM, p)
                  idx == Unwrap(WM.grab).window_index
              IN idx < Len(WM.windows) =>
                    /\ At(after.windows, idx).size[1] >= MinResizeW
                    /\ At(after.windows, idx).size[2] >= MinResizeH
                    /\ At(after.windows, idx).size[1] >=
                          Unwrap(WM.grab).initial_window_size[1]
                             + AsI32(p[1] - Unwrap(WM.grab).initial_cursor[1])
                    /\ At(after.windows, idx).size[2] >=
                          Unwrap(WM.grab).initial_window_size[2]
                             + AsI32(p[2] - Unwrap(WM.grab).initial_cursor[2])

\* a Resize grab is active and motion has shrunk the grabbed window onto the
\* minimum on both axes
C7_Witness ==
    /\ IsSome(WM.grab)
    /\ Unwrap(WM.grab).kind = "Resize"
    /\ Unwrap(WM.grab).window_index < Len(WM.windows)
    /\ At(WM.windows, Unwrap(WM.grab).window_index).size = <<MinResizeW, MinResizeH>>
    /\ Unwrap(WM.grab).initial_window_size[1] > MinResizeW


\* the binding table as written: key symbols with Super, Super+Shift, Alt
SuperKeys == {"Return", "d", "D", "q", "Q", "f", "F", "Left", "Right", "Tab"}
TableAction(keysym) ==
    CASE keysym = "Return" -> "SpawnTerminal"
      [] keysym \in {"d", "D"} -> "ToggleLauncher"
      [] keysym \in {"q", "Q", "F4"} -> "CloseWindow"
      [] keysym \in {"f", "F"} -> "ToggleFullscreen"
      [] keysym = "Left" -> "TileLeft"
      [] keysym = "Right" -> "TileRight"
      [] keysym = "Tab" -> "CycleFocus"
      [] keysym \in {"e", "E"} -> "ExitCompositor"
      [] OTHER -> "none"
\* an entry of the table with exactly its modifiers held
ExactEntry(modifiers, keysym) ==
    \/ modifiers = {"logo"} /\ keysym \in SuperKeys
    \/ modifiers = {"logo", "shift"} /\ keysym \in {"e", "E"}
    \/ modifiers = {"alt"} /\ keysym = "F4"
\* an entry of the table with at least its modifiers held
HeldEntry(modifiers, keysym) ==
    \/ "logo" \in modifiers /\ keysym \in SuperKeys
    \/ {"logo", "shift"} \subseteq modifiers /\ keysym \in {"e", "E"}
    \/ "alt" \in modifiers /\ keysym = "F4"
\* what the code matches: further modifiers are ignored, except that Alt+F4
\* is not matched while Super is held
MatchedEntry(modifiers, keysym) ==
    IF "logo" \in modifiers
    THEN keysym \in SuperKeys \/ ("shift" \in modifiers /\ keysym \in {"e", "E"})
    ELSE "alt" \in modifiers /\ keysym = "F4"

PressOf(modifiers, keysym) == InputHandleKeyboard(state, modifiers, keysym, "Pressed")
Intercepted(r, keysym) ==
    /\ r.eff.filter = "Intercept"
    /\ r.eff.actions = <<TableAction(keysym)>>
    /\ \A i \in 1 .. Len(r.eff.msgs) : r.eff.msgs[i].msg # "key"
ForwardedUnchanged(r) ==
    /\ r.eff.filter = "Forward"
    /\ r.eff.actions = << >>
    /\ r.st = state

\* C8 as claimed: a key press is intercepted (its action runs once, nothing is
\* forwarded) if and only if its (modifiers, key symbol) is one of the nine
\* entries of the table, and is otherwise forwarded with no state change;
\* an entry read either as exactly its modifiers or as at least its modifiers.
C8_InterceptIffTableEntry ==
    \/ \A modifiers \in ModifierSets : \A keysym \in Keysyms :
          IF ExactEntry(modifiers, keysym)
          THEN Intercepted(PressOf(modifiers, keysym), keysym)
          ELSE ForwardedUnchanged(PressOf(modifiers, keysym))
    \/ \A modifiers \in ModifierSets : \A keysym \in Keysyms :
          IF HeldEntry(modifiers, keysym)
          THEN Intercepted(PressOf(modifiers, keysym), keysym)
          ELSE ForwardedUnchanged(PressOf(modifiers, keysym))

\* C8 as amended: a key press is intercepted (its action runs once, nothing is
\* forwarded) if and only if Super is held and the key symbol is one of the
\* seven Super entries, or Super and Shift are held and the key symbol is E, or
\* Alt is held without Super and the key symbol is F4, whatever other
\* modifiers are held; every other key press, Super+Alt+F4 included, and every
\* key release is forwarded and changes no state.
C8_InterceptIffMatched ==
    \A modifiers \in ModifierSets : \A keysym \in Keysyms :
        /\ IF MatchedEntry(modifiers, keysym)
           THEN Intercepted(PressOf(modifiers, keysym), keysym)
           ELSE ForwardedUnchanged(PressOf(modifiers, keysym))
        /\ ForwardedUnchanged(InputHandleKeyboard(state, modifiers, keysym, "Released"))

\* intercepted presses have acted (the launcher is open, a window is
\* fullscreen, the stop was requested) and a window is there to receive
\* Super+Alt+F4, which is forwarded
C8_Witness ==
    /\ state.launcher.visible
    /\ state.loop_signal.stop
    /\ FocusedValid(WM)
    /\ FocusedWindow(WM).fullscreen
    /\ PressOf({"logo", "alt"}, "F4").eff.filter = "Forward"
    /\ PressOf({"logo", "ctrl"}, "d").eff.filter = "Intercept"

\* C9 as claimed: a key press that matches no binding is delivered to the
\* client of the window the window manager reports as focused.
C9_UnboundKeyReachesFocusedClient ==
    FocusedValid(WM) =>
        /\ state.seat.keyboard_focus = Some(FocusedWindow(WM).toplevel)
        /\ PressOf({}, "a").eff.msgs
              = << [msg |-> "key", to |-> Some(FocusedWindow(WM).toplevel)] >>

\* C10 as claimed: once a stop is requested, no new iteration starts after the
\* one in flight.
C10_NoIterationAfterStop ==
    [][(state.loop_signal.stop /\ pc = "dispatch") => pc' # "drain"]_vars


CursorAt(p) == [state EXCEPT !.window_manager.cursor_pos = p]
PressAt(p) == InputHandlePointerButton(CursorAt(p), "Pressed")
ReleaseAt(p) == InputHandlePointerButton(CursorAt(p), "Released")
CursorPoints == ProbePoints \cup {WM.cursor_pos}
Calls(r, name) == \E i \in 1 .. Len(r.eff.calls) : r.eff.calls[i] = name
InPanelBand(p) == p[2] < AsF64(PanelBand)

C14_LauncherPressSkipsFocusAt ==
    \A p \in CursorPoints :
        (~InPanelBand(p) /\ state.launcher.visible) =>
            /\ ~Calls(PressAt(p), "focus_at")
            /\ PressAt(p).st.window_manager = CursorAt(p).window_manager

\* a press is neither taken by the panel nor by the launcher
Unconsumed(st) ==
    /\ ~InPanelBand(st.window_manager.cursor_pos)
    /\ ~( /\ st.launcher.visible
          /\ IsSome(LauncherHandleClick(st.launcher, st.window_manager.cursor_pos[1],
                                        st.window_manager.cursor_pos[2])) )

\* C15 as claimed: a press consumed neither by the panel nor by the launcher
\* is sent, after focus_at(cursor), to the client of the window focused then.
C15_PressReachesFocusedClient ==
    (Unconsumed(state) /\ FocusedValid(Pressed(state).window_manager)) =>
        InputHandlePointerButton(state, "Pressed").eff.msgs
            = << [msg |-> "button",
                  to |-> Some(FocusedWindow(Pressed(state).window_manager).toplevel)] >>

ToplevelsOf(wm) == { wm.windows[i].toplevel : i \in 1 .. Len(wm.windows) }
CloseChords == { <<{"logo"}, "q">>, <<{"logo"}, "Q">>, <<{"alt"}, "F4">>,
                 <<{"logo", "shift"}, "Q">>, <<{"alt", "ctrl"}, "F4">> }

\* C17: close_focused (Super+Q, Alt+F4) only sends a close request to the
\* focused window's client and leaves the window sequence, the focus index and
\* every window's geometry unchanged; a window leaves the registry only in a
\* step that is the handling of a toplevel-destroyed notification.
C17_RemovalOnlyOnDestroyed ==
    /\ [](\A chord \in CloseChords :
            /\ PressOf(chord[1], chord[2]).st = state
            /\ PressOf(chord[1], chord[2]).eff.calls = <<"close_focused">>
            /\ PressOf(chord[1], chord[2]).eff.msgs =
                  IF FocusedValid(WM)
                  THEN << [msg |-> "close", to |-> Some(FocusedWindow(WM).toplevel)] >>
                  ELSE << >>)
    /\ [][ (ToplevelsOf(state.window_manager) \ ToplevelsOf(state'.window_manager) # {}) =>
              \E surface \in ToplevelsOf(state.window_manager) :
                  state' = ToplevelDestroyed(state, surface).st ]_vars

\* a window was destroyed earlier (toplevel 2 is alone), and a close request
\* for the window that is left would be sent and leave it in place
C17_Witness ==
    /\ StackOf(WM) = <<2>>
    /\ PressOf({"alt"}, "F4").eff.msgs = << [msg |-> "close", to |-> Some(2)] >>
    /\ StackOf(PressOf({"alt"}, "F4").st.window_manager) = <<2>>


\* the grab begin_move / begin_resize must set up from the manager's state
GrabOf(wm, kind) ==
    Some([ window_index |-> Unwrap(wm.focused),
           kind |-> kind,
           initial_cursor |-> wm.cursor_pos,
           initial_window_pos |-> FocusedWindow(wm).position,
           initial_window_size |-> FocusedWindow(wm).size ])
KeepsGrab(after) == after.grab = WM.grab

\* C18: there is at most one grab; begin_move / begin_resize with a focused
\* window set the grab (replacing any other) to the focused index, the kind,
\* the cursor and the window's geometry, and with no focused window change
\* nothing; end_grab clears it and nothing else; add, remove, focus_at,
\* cycle_focus, tiling, fullscreen toggling, pointer motion, button and key
\* handling never create or clear it; and in a run the grab changes only in a
\* begin_move, begin_resize or end_grab step.
C18_GrabLifecycle ==
    /\ [](/\ Len(WM.grab) <= 1
          /\ IF IsSome(WM.focused)
             THEN /\ BeginMove(WM) = [WM EXCEPT !.grab = GrabOf(WM, "Move")]
                  /\ BeginResize(WM) = [WM EXCEPT !.grab = GrabOf(WM, "Resize")]
             ELSE BeginMove(WM) = WM /\ BeginResize(WM) = WM
          /\ EndGrab(WM) = [WM EXCEPT !.grab = None]
          /\ \A surface \in Toplevels :
                /\ KeepsGrab(AddWindow(WM, surface, state.output_size))
                /\ KeepsGrab(RemoveWindow(WM, surface))
                /\ KeepsGrab(ToplevelDestroyed(state, surface).st.window_manager)
          /\ \A p \in MotionProbes :
                /\ KeepsGrab(FocusAt(WM, p))
                /\ KeepsGrab(HandlePointerMotion(WM, p))
                /\ KeepsGrab(PressAt(p).st.window_manager)
                /\ KeepsGrab(InputHandlePointerMotionAbsolute(state, p).st.window_manager)
          /\ \A delta \in RelDeltas :
                KeepsGrab(InputHandlePointerMotion(state, delta).st.window_manager)
          /\ KeepsGrab(CycleFocus(WM))
          /\ \A size \in OutputSizes :
                /\ KeepsGrab(TileLeft(WM, size))
                /\ KeepsGrab(TileRight(WM, size))
                /\ KeepsGrab(ToggleFullscreen(WM, size))
          /\ \A modifiers \in {{"logo"}, {"logo", "shift"}, {"alt"}} :
                \A keysym \in Keysyms :
                    KeepsGrab(PressOf(modifiers, keysym).st.window_manager))
    /\ [][ state'.window_manager.grab # state.window_manager.grab =>
              \/ state'.window_manager = BeginMove(state.window_manager)
              \/ state'.window_manager = BeginResize(state.window_manager)
              \/ state'.window_manager = EndGrab(state.window_manager) ]_vars

\* a grab outlived its window: every window was removed, the grab is still
\* there, and begin_resize, with nothing focused, leaves it as it is
C18_Witness ==
    /\ IsSome(WM.grab)
    /\ Unwrap(WM.grab).kind = "Move"
    /\ Len(WM.windows) = 0
    /\ BeginResize(WM).grab = WM.grab


Launcher == state.launcher

\* C19: whenever the filtered list is non-empty, the selected index is
\* strictly less than its length.
C19_SelectedInRange ==
    /\ Launcher.selected >= 0
    /\ Len(Launcher.filtered) # 0 => Launcher.selected < Len(Launcher.filtered)

\* select_next has moved the selection to the last entry of a list filtered by
\* a typed query
C19_Witness ==
    /\ Len(Launcher.search_query) > 0
    /\ Len(Launcher.filtered) = 2
    /\ Launcher.selected = 1
    /\ LauncherSelectNext(Launcher) = Launcher

\* the entries a query selects: those whose case-folded name, generic name or
\* some category contains the case-folded query
Folded(app) ==
    {ToLowercase(app.name), ToLowercase(app.generic_name)}
        \cup { ToLowercase(app.categories[c]) : c \in 1 .. Len(app.categories) }
Matching(query) ==
    { i \in Indices(Apps) :
        \E text \in Folded(At(Apps, i)) : StrContains(text, ToLowercase(query)) }
AscendingListOf(list, set) ==
    /\ Len(list) = Cardinality(set)
    /\ \A i \in 1 .. Len(list) : list[i] \in set
    /\ \A i \in 1 .. Len(list) : \A j \in 1 .. Len(list) : i < j => list[i] < list[j]

\* C20: the filtered list is exactly the ascending list of the indices of the
\* entries whose case-folded name, generic name or some category contains the
\* case-folded query; an entry whose name contains the query is in it; with
\* an empty query it is all entries in their sorted order.
C20_FilteredIsMatching ==
    /\ AscendingListOf(Launcher.filtered, Matching(Launcher.search_query))
    /\ \A i \in Indices(Apps) :
          StrContains(At(Apps, i).name, Launcher.search_query) =>
              \E k \in 1 .. Len(Launcher.filtered) : Launcher.filtered[k] = i
    /\ Launcher.search_query = << >> =>
          Launcher.filtered = [k \in 1 .. Len(Apps) |-> k - 1]

\* the typed query is an upper-case letter that selects both entries only
\* through case folding
C20_Witness ==
    /\ Launcher.search_query = <<"F">>
    /\ Launcher.filtered = <<0, 1>>
    /\ ~StrContains(At(Apps, 1).name, Launcher.search_query)


(* C21: a descriptor whose [Desktop Entry] section holds Hidden=true or    *)
(* NoDisplay=true, or holds no non-empty Name or no Exec that is non-empty *)
(* after the field codes are removed, is not among the launcher's entries  *)
(* after the scan, whatever the order and repetition of its lines.         *)
\* the positions of the descriptor's key lines that lie in [Desktop Entry]
EntryLines(lines) ==
    { i \in 1 .. Len(lines) :
        /\ ~IsSectionHeader(lines[i])
        /\ \E h \in 1 .. (i - 1) :
              /\ lines[h].key = "[Desktop Entry]"
              /\ \A k \in (h + 1) .. (i - 1) : ~IsSectionHeader(lines[k]) }
SetsFlag(lines, key) ==
    \E i \in EntryLines(lines) :
        lines[i].key = key /\ ToLowercase(Trim(lines[i].value)) = <<"t", "r", "u", "e">>
HasName(lines) ==
    \E i \in EntryLines(lines) : lines[i].key = "Name" /\ Trim(lines[i].value) # << >>
HasExec(lines) ==
    \E i \in EntryLines(lines) :
        lines[i].key = "Exec" /\ Trim(StripFieldCodes(Trim(lines[i].value), 1)) # << >>
Listed(file) == \E i \in Indices(Launcher.apps) : At(Launcher.apps, i).desktop_file = file.path
C21_ExcludedNeverListed ==
    (/\ pc # "new"
     /\ \/ SetsFlag(Descriptor.lines, "Hidden")
        \/ SetsFlag(Descriptor.lines, "NoDisplay")
        \/ ~HasName(Descriptor.lines)
        \/ ~HasExec(Descriptor.lines))
        => ~Listed(Descriptor)


Panel == state.panel

(* C22: the panel's battery percent is -1 or within 0..100 at all times;   *)
(* a refresh made while neither BAT0 nor BAT1 exists leaves the percent at *)
(* -1 and the battery text "AC", whatever an earlier refresh had read.     *)
Refreshed == state'.panel.last_update_sec # state.panel.last_update_sec
C22_NoBatteryReadsAC ==
    /\ [](Panel.battery_percent = -1 \/ Panel.battery_percent \in 0 .. 100)
    /\ [][ (Refreshed /\ ~IsSome(env.bat0) /\ ~IsSome(env.bat1))
             => /\ state'.panel.battery_percent = -1
                /\ BatteryText(state'.panel) = <<"AC">> ]_vars
\* a battery that was charging at one refresh is gone at a later one
C22_Witness ==
    /\ Panel.battery_percent = -1
    /\ Panel.battery_charging
    /\ BatteryText(Panel) = <<"AC">>
    /\ ~IsSome(env.bat0) /\ ~IsSome(env.bat1)


(* C30: the loop calls the panel's update in every iteration, so while the *)
(* loop runs, a snapshot older than the wall-clock second is eventually    *)
(* replaced by one taken in the current second.                            *)
C30_SnapshotFollowsClock ==
    (Panel.last_update_sec # env.now)
        ~> (Panel.last_update_sec = env.now \/ pc = "exited")


\* the window a grab is bound to, where it is bound to one
Grabbed(wm) == At(wm.windows, Unwrap(wm.grab).window_index)
MoveGrabActive(wm) ==
    /\ IsSome(wm.grab)
    /\ Unwrap(wm.grab).kind = "Move"
    /\ Unwrap(wm.grab).window_index < Len(wm.windows)

(* C23: while a Move grab is active, handle_pointer_motion(p) puts the     *)
(* grabbed window at the position captured at grab start plus (p minus the *)
(* cursor captured at grab start), in whole pixels, with Y raised to the   *)
(* panel band height where it would be less; the result depends on p only, *)
(* not on earlier motions, and the window's size is unchanged.             *)
C23_MoveFollowsPointer ==
    MoveGrabActive(WM) =>
        \A p \in MotionProbes :
            LET grab == Unwrap(WM.grab)
                after == HandlePointerMotion(WM, p)
                x == grab.initial_window_pos[1] + AsI32(p[1] - grab.initial_cursor[1])
                y == grab.initial_window_pos[2] + AsI32(p[2] - grab.initial_cursor[2])
            IN /\ Grabbed(after).position = <<x, Max(y, PanelBand)>>
               /\ Grabbed(after).position[2] >= PanelBand
               /\ Grabbed(after).size = Grabbed(WM).size
               /\ \A q \in AbsPoints :
                     HandlePointerMotion(HandlePointerMotion(WM, q), p) = after
\* a Move grab has dragged the window up and left: it rests on the panel band,
\* away from where the grab found it
C23_Witness ==
    /\ MoveGrabActive(WM)
    /\ Grabbed(WM).position[2] = PanelBand
    /\ Grabbed(WM).position[1] < Unwrap(WM.grab).initial_window_pos[1]
    /\ Unwrap(WM.grab).initial_window_pos[2] > PanelBand


(* C24: relative pointer motion under an active grab forwards no motion    *)
(* event to any client; with no grab it leaves the windows, their order    *)
(* and the focus as they were, and forwards a motion event exactly when a  *)
(* window contains the new cursor position, to that window's client and    *)
(* with the position relative to that window's origin.                     *)
C24_RelativeMotionRouting ==
    \A delta \in RelDeltas :
        LET r == InputHandlePointerMotion(state, delta)
            after == r.st.window_manager
            new_pos == after.cursor_pos
            hit == { i \in Indices(WM.windows) : ContainsPoint(At(WM.windows, i), new_pos) }
        IN /\ IsSome(WM.grab) => r.eff.msgs = << >>
           /\ ~IsSome(WM.grab) =>
                 /\ after.windows = WM.windows
                 /\ after.focused = WM.focused
                 /\ after.grab = WM.grab
                 /\ (hit = {}) <=> (r.eff.msgs = << >>)
                 /\ hit # {} =>
                       /\ Len(r.eff.msgs) = 1
                       /\ r.eff.msgs[1].msg = "motion"
                       /\ \E i \in hit :
                             /\ r.eff.msgs[1].to = Some(At(WM.windows, i).toplevel)
                             /\ r.eff.msgs[1].surface_pos =
                                   << new_pos[1] - AsF64(At(WM.windows, i).position[1]),
                                      new_pos[2] - AsF64(At(WM.windows, i).position[2]) >>
\* a grab is active, the pointer has moved since it began and lies over a
\* window, and no client has been sent a motion
C24_Witness ==
    /\ IsSome(WM.grab)
    /\ WM.cursor_pos # Unwrap(WM.grab).initial_cursor
    /\ \E i \in Indices(WM.windows) : ContainsPoint(At(WM.windows, i), WM.cursor_pos)
    /\ state.seat.pointer_focus = None


(* C25: surface_under(p) is the highest window of the stack whose box      *)
(* contains p, with p relative to that window's position, and nothing when *)
(* no window contains p; when it names a window, focus_at(p) in the same   *)
(* state raises that window to the top and focuses it.                     *)
C25_SurfaceUnderIsTopmost ==
    \A p \in ProbePoints \cup {WM.cursor_pos} :
        LET under == SurfaceUnder(WM, p)
            hit == { i \in Indices(WM.windows) : ContainsPoint(At(WM.windows, i), p) }
            raised == FocusAt(WM, p)
        IN /\ (hit = {}) <=> (under = None)
           /\ hit # {} =>
                 LET top == CHOOSE i \in hit : \A j \in hit : j <= i
                 IN /\ Unwrap(under).surface = At(WM.windows, top).toplevel
                    /\ Unwrap(under).relative_pos =
                          << p[1] - AsF64(At(WM.windows, top).position[1]),
                             p[2] - AsF64(At(WM.windows, top).position[2]) >>
                    /\ raised.focused = Some(Len(raised.windows) - 1)
                    /\ At(raised.windows, Len(raised.windows) - 1).toplevel
                          = Unwrap(under).surface
\* two windows overlap under the cursor, the one created first on top (a
\* press raised it) and named by surface_under
C25_Witness ==
    /\ Len(WM.windows) = 2
    /\ \A i \in Indices(WM.windows) : ContainsPoint(At(WM.windows, i), WM.cursor_pos)
    /\ At(WM.windows, 1).toplevel < At(WM.windows, 0).toplevel
    /\ Unwrap(SurfaceUnder(WM, WM.cursor_pos)).surface = At(WM.windows, 1).toplevel
    /\ At(WM.windows, 0).position # At(WM.windows, 1).position


\* output sizes add_window is probed with: the backend's, one smaller than a
\* window, one that leaves odd margins
PlacementSizes == OutputSizes \cup { <<400, 300>>, <<1921, 1081>>, <<801, 633>> }

(* C26: add_window puts the new window last in the stack and focuses it,   *)
(* keeps the windows already there in their order and with their geometry, *)
(* and places the new one at x = max(0, (outputWidth - width) / 2) and     *)
(* y = max(panelHeight, panelHeight + (outputHeight - panelHeight -        *)
(* height) / 2): its top edge is on or below the panel band for every      *)
(* output size.                                                            *)
C26_AddWindowPlacement ==
    \A size \in PlacementSizes \cup {state.output_size} :
        \A toplevel \in Toplevels :
            ~IsSome(PositionOf(WM.windows, toplevel)) =>
                LET after == AddWindow(WM, toplevel, size)
                    n == Len(WM.windows)
                    new == At(after.windows, n)
                IN /\ Len(after.windows) = n + 1
                   /\ SubSeq(after.windows, 1, n) = WM.windows
                   /\ new.toplevel = toplevel
                   /\ after.focused = Some(n)
                   /\ new.position[1] = Max(0, TruncDiv(size[1] - new.size[1], 2))
                   /\ new.position[2] =
                         Max(PanelHeight,
                             PanelHeight + TruncDiv(size[2] - PanelHeight - new.size[2], 2))
                   /\ new.position[2] >= PanelBand
\* a window added on the large output lies below one added later on the
\* small output, which sits on the panel band at the left edge and is focused
C26_Witness ==
    /\ Len(WM.windows) = 2
    /\ WM.focused = Some(1)
    /\ At(WM.windows, 0).toplevel = 1
    /\ At(WM.windows, 0).position[1] > 0
    /\ At(WM.windows, 1).toplevel = 2
    /\ At(WM.windows, 1).position = <<0, PanelBand>>

\* the manager with the focus on index f, where there is a window
FocusOn(wm, f) == IF f \in Indices(wm.windows) THEN [wm EXCEPT !.focused = Some(f)] ELSE wm
ToplevelOfFocused(wm) == At(wm.windows, Unwrap(wm.focused)).toplevel

OnlyWindowChanged(before, after, idx) ==
    /\ Len(after.windows) = Len(before.windows)
    /\ \A i \in Indices(before.windows) :
          i # idx => At(after.windows, i) = At(before.windows, i)
    /\ At(after.windows, idx).toplevel = At(before.windows, idx).toplevel
    /\ after.focused = before.focused

(* C28: tile_left and tile_right give the focused window x = 0 (left) or   *)
(* x = outputWidth / 2 (right), y = panelHeight, width = outputWidth / 2   *)
(* and height = outputHeight - panelHeight, clear its fullscreen flag      *)
(* whether or not it was set, and change no other window; with no focused  *)
(* window they change nothing.                                             *)
C28_TileGeometry ==
    \A size \in PlacementSizes \cup {state.output_size} :
        LET left == TileLeft(WM, size)
            right == TileRight(WM, size)
            half == TruncDiv(size[1], 2)
        IN IF ~IsSome(WM.focused)
           THEN left = WM /\ right = WM
           ELSE LET idx == Unwrap(WM.focused)
                IN /\ OnlyWindowChanged(WM, left, idx)
                   /\ OnlyWindowChanged(WM, right, idx)
                   /\ At(left.windows, idx).position = <<0, PanelHeight>>
                   /\ At(right.windows, idx).position = <<half, PanelHeight>>
                   /\ At(left.windows, idx).size = <<half, size[2] - PanelHeight>>
                   /\ At(right.windows, idx).size = <<half, size[2] - PanelHeight>>
                   /\ ~At(left.windows, idx).fullscreen
                   /\ ~At(right.windows, idx).fullscreen
\* the focused window was fullscreen (its geometry is still saved) and has been
\* tiled to the left half of the output, above a window that was not touched
C28_Witness ==
    /\ Len(WM.windows) = 2
    /\ WM.focused = Some(1)
    /\ ~At(WM.windows, 1).fullscreen
    /\ IsSome(At(WM.windows, 1).saved_geometry)
    /\ At(WM.windows, 1).position = <<0, PanelHeight>>
    /\ At(WM.windows, 1).size =
          <<TruncDiv(state.output_size[1], 2), state.output_size[2] - PanelHeight>>
    /\ At(WM.windows, 0).size = <<DefaultW, DefaultH>>


\* the focused window has its fullscreen flag set and no saved geometry
FlagWithoutSaved(wm) ==
    /\ FocusedValid(wm)
    /\ At(wm.windows, Unwrap(wm.focused)).fullscreen
    /\ ~IsSome(At(wm.windows, Unwrap(wm.focused)).saved_geometry)

(* C29: toggle_fullscreen on a focused window whose fullscreen flag is set *)
(* and which has no saved geometry returns normally, leaves the window's   *)
(* position and size as they are and clears the flag; no other window      *)
(* changes.  Stated of the operation on every output size and of the       *)
(* Super+F key that calls it.                                              *)
C29_RestoreWithoutSaved ==
    /\ [](FlagWithoutSaved(WM) =>
            \A size \in PlacementSizes \cup {state.output_size} :
                LET idx == Unwrap(WM.focused)
                    after == ToggleFullscreen(WM, size)
                IN /\ OnlyWindowChanged(WM, after, idx)
                   /\ At(after.windows, idx) =
                         [At(WM.windows, idx) EXCEPT !.fullscreen = FALSE])
    /\ [][ (/\ FlagWithoutSaved(WM)
            /\ state' = InputHandleKeyboard(state, {"logo"}, "f", "Pressed").st)
               => LET idx == Unwrap(WM.focused)
                  IN /\ At(state'.window_manager.windows, idx).position
                           = At(WM.windows, idx).position
                     /\ At(state'.window_manager.windows, idx).size
                           = At(WM.windows, idx).size
                     /\ ~At(state'.window_manager.windows, idx).fullscreen ]_vars
\* the focused window, not at a new window's default geometry, has the flag
\* set and nothing saved, beside a window that is fullscreen with its
\* geometry saved
C29_Witness ==
    /\ FlagWithoutSaved(WM)
    /\ Len(WM.windows) = 2
    /\ At(WM.windows, Unwrap(WM.focused)).position # <<DefaultX, DefaultY>>
    /\ \E i \in Indices(WM.windows) :
          At(WM.windows, i).fullscreen /\ IsSome(At(WM.windows, i).saved_geometry)


(* C31: update recomputes the snapshot at most once per wall-clock second: *)
(* a call made in the second of the last recompute leaves clock text,      *)
(* battery percent, charging flag, network status and network name as they *)
(* are, whatever the battery and network sources report by then.           *)
Sources ==
    { [env EXCEPT !.bat0 = bat0, !.bat1 = bat1, !.net = net] :
        bat0 \in BatteryDirs, bat1 \in BatteryDirs, net \in NetDirs }
C31_UpdateOncePerSecond ==
    /\ \A sys \in Sources :
          sys.now = Panel.last_update_sec => StatusPanelUpdate(Panel, sys) = Panel
    /\ [][ env.now = state.panel.last_update_sec
             => state'.panel = state.panel ]_vars
\* in the second of a recompute made after start-up the battery and the
\* network have both changed under the snapshot
C31_Witness ==
    /\ env.now = Panel.last_update_sec
    /\ Panel.last_update_sec > Machine.now
    /\ UpdateBattery(Panel, env).battery_percent # Panel.battery_percent
    /\ UpdateNetwork(Panel, env).network_status # Panel.network_status


\* the entries of /sys/class/net, other than lo, whose operstate reads up
UpInterfaces(entries) ==
    SelectSeq(entries,
              LAMBDA entry : /\ entry.name # <<"l", "o">>
                             /\ IsSome(entry.operstate)
                             /\ Trim(Unwrap(entry.operstate)) = <<"u", "p">>)
IsWireless(name) == StartsWith(name, <<"w", "l">>)
IsWired(name) == StartsWith(name, <<"e", "n">>) \/ StartsWith(name, <<"e", "t", "h">>)
(* C32: after a refresh the network status is Unknown when /sys/class/net  *)
(* could not be scanned, Disconnected when it was scanned and no interface *)
(* other than lo is up, and otherwise the class (by name prefix) and the   *)
(* name of the first scanned interface, other than lo, that is up.         *)
C32_NetworkClassification ==
    [][ Refreshed =>
          LET after == state'.panel
          IN IF ~IsSome(env.net) THEN after.network_status = "Unknown"
             ELSE LET up == UpInterfaces(Unwrap(env.net))
                  IN IF up = << >>
                     THEN after.network_status = "Disconnected"
                     ELSE /\ IsWireless(Head(up).name)
                               => /\ after.network_status = "WiFi"
                                  /\ after.network_name = Head(up).name
                          /\ IsWired(Head(up).name)
                               => /\ after.network_status = "Ethernet"
                                  /\ after.network_name = Head(up).name ]_vars


\* the launcher box and its grid as handle_click lays them out
BoxW == Min(LauncherMaxW, LauncherOutputW - LauncherMarginW)
BoxH == Min(LauncherMaxH, LauncherOutputH - LauncherMarginH)
BoxX == TruncDiv(LauncherOutputW - BoxW, 2)
BoxY == TruncDiv(LauncherOutputH - BoxH, 2)
GridX == BoxX + LauncherGridInset
GridY == BoxY + LauncherPad + LauncherSearchBarH + LauncherPad
ItemW == TruncDiv(BoxW - 2 * LauncherGridInset, LauncherCols)
\* click points around and across the box: outside it, on its edges, in
\* the search-bar band, in the padding, in cells and on cell boundaries
ClickPoints ==
    { <<AsF64(BoxX + dx) + fx, AsF64(BoxY + dy) + fy>> :
        dx \in {-1, 0, 15, 29, 30, 214, 215, 769, 770, 785, 800, 801},
        dy \in {-1, 0, 45, 89, 90, 189, 190, 389, 390, 500, 600, 601},
        fx \in {0, 1}, fy \in {0, 1} }
InCell(p, row, col) ==
    /\ p[1] >= AsF64(GridX + col * ItemW)
    /\ p[1] < AsF64(GridX + (col + 1) * ItemW)
    /\ p[2] >= AsF64(GridY + row * LauncherItemH)
    /\ p[2] < AsF64(GridY + (row + 1) * LauncherItemH)
(* C33: a launcher click returns an application only when the point lies   *)
(* inside one of the 4 x 3 grid cells and the cell's index row*4+column is *)
(* below the length of the filtered list; a click in the search-bar band,  *)
(* outside the box, or inside the box but outside the cells (the padding   *)
(* left and right of the grid included) returns nothing.                   *)
C33_ClickOnlyInGrid ==
    \A p \in ClickPoints :
        IsSome(LauncherHandleClick(Launcher, p[1], p[2])) =>
            \E row \in 0 .. (LauncherRows - 1), col \in 0 .. (LauncherCols - 1) :
                /\ InCell(p, row, col)
                /\ row * LauncherCols + col < Len(Launcher.filtered)


\* the launcher's part of the frame drawn for the current state
DrawnLauncher == RenderLauncher(Launcher, state.output_size)
DrawnCount == Min(Len(Launcher.filtered), 12)
\* the rectangle drawn for grid item i
DrawnCell(i) == DrawnLauncher[3 + 2 * i + 1].rects[1]
\* points inside a rectangle: its top-left pixel, its centre, its
\* bottom-right pixel
PointsIn(r) ==
    { <<AsF64(r[1]), AsF64(r[2])>>,
      <<AsF64(r[1] + TruncDiv(r[3], 2)) + 1, AsF64(r[2] + TruncDiv(r[4], 2)) + 1>>,
      <<AsF64(r[1] + r[3] - 1), AsF64(r[2] + r[4] - 1)>> }
(* C34: for every output size the box and the cells of the click hit test  *)
(* are those the renderer draws in the same state: the drawn box is the    *)
(* hit-test box, and a press inside the drawn cell i launches filtered     *)
(* entry i, also after the backend has resized the output.                 *)
C34_HitTestMatchesDrawn ==
    Launcher.visible =>
        /\ DrawnLauncher[2].rects[1] = rect(BoxX, BoxY, BoxW, BoxH)
        /\ \A i \in 0 .. (DrawnCount - 1) :
              \A p \in PointsIn(DrawnCell(i)) :
                  /\ LauncherHandleClick(Launcher, p[1], p[2])
                        = Some(At(Launcher.apps, At(Launcher.filtered, i)).exec)
                  /\ PressAt(p).eff.msgs
                        = << [msg |-> "spawn",
                              to |-> Some(At(Launcher.apps, At(Launcher.filtered, i)).exec)] >>


\* the frame the loop's render step draws
Frame == RendererRenderFrame(state, state.output_size)
\* the left border of a window geometry
LeftBorder(w) == rect(w.position[1] - BORDER_WIDTH, w.position[2], BORDER_WIDTH, w.size[2])
(* C35: the commands of every frame are, in this order: the background     *)
(* clear, one border command per window in stack order (bottom first, the  *)
(* topmost last), the panel band, the launcher overlay if and only if the  *)
(* launcher is visible, and the cursor marker as the last command; the     *)
(* render step changes no state, so a second pass draws the same frame.    *)
C35_FrameOrder ==
    /\ [](pc = "render" =>
            LET n == Len(WM.windows)
                shown == IF Launcher.visible THEN 3 + 2 * DrawnCount ELSE 0
            IN /\ Len(Frame) = 1 + n + 2 + shown + 1
               /\ Frame[1] = Clear(colors.BG_DARK,
                                   << rect(0, 0, state.output_size[1], state.output_size[2]) >>)
               /\ \A i \in 1 .. n :
                     /\ Len(Frame[1 + i].rects) = 4
                     /\ Frame[1 + i].rects[3] = LeftBorder(WM.windows[i])
                     /\ Frame[1 + i].color =
                           IF i = n THEN colors.BORDER_FOCUSED ELSE colors.BORDER_UNFOCUSED
               /\ Frame[n + 2].color = colors.PANEL_BG
               /\ Frame[n + 3].color = colors.ACCENT_CRIMSON
               /\ Launcher.visible =>
                     /\ Frame[n + 4] = Clear(<<0, 0, 0, 70>>,
                                            << rect(0, 0, state.output_size[1],
                                                    state.output_size[2]) >>)
                     /\ SubSeq(Frame, n + 4, Len(Frame) - 1) = DrawnLauncher
               /\ Frame[Len(Frame)] = RenderCursor(WM)
               /\ Frame[Len(Frame)].rects[1][3] = 8)
    /\ [][pc = "render" => state' = state]_vars
\* a frame over two windows at different places, the launcher open with
\* both entries, the cursor away from the origin
C35_Witness ==
    /\ pc = "render"
    /\ Len(WM.windows) = 2
    /\ WM.windows[1].position # WM.windows[2].position
    /\ Launcher.visible
    /\ DrawnCount = 2
    /\ WM.cursor_pos # <<0, 0>>
    /\ Len(Frame) = 13


\* the windows whose border render_frame draws in the focused colour
DrawnFocused(wm) ==
    { idx \in Indices(wm.windows) :
        RenderWindow(wm.windows, idx).color = colors.BORDER_FOCUSED }
(* C36: in every reachable state with at least one window the focused      *)
(* index is the last index of the stack, so the one window drawn with the  *)
(* focused border colour (the topmost) is the manager's focused window,    *)
(* after any interleaving of add, remove, focus_at and cycle_focus.        *)
C36_FocusedIsTopmost ==
    Len(WM.windows) >= 1 =>
        /\ WM.focused = Some(Len(WM.windows) - 1)
        /\ DrawnFocused(WM) = {Unwrap(WM.focused)}
\* Super+Tab or a press has raised the older window above the newer one,
\* which was given the focus when it was added
C36_Witness ==
    /\ Len(WM.windows) = 2
    /\ WM.windows[1].toplevel > WM.windows[2].toplevel
    /\ WM.focused = Some(1)
    /\ DrawnFocused(WM) = {1}


\* the toplevel a grab's window index denotes, if it denotes one
GrabbedToplevel(wm) ==
    IF IsSome(wm.grab) /\ Unwrap(wm.grab).window_index < Len(wm.windows)
    THEN Some(At(wm.windows, Unwrap(wm.grab).window_index).toplevel)
    ELSE None
(* C37: from begin_move / begin_resize to end_grab the grab stays bound to *)
(* the window that was focused when it began: while a grab is active its   *)
(* window index is a valid index, a motion changes the geometry of the     *)
(* window at that index and of no other, and as long as the grab is kept   *)
(* the index denotes the same window, whatever add, remove, focus_at and   *)
(* cycle_focus do in between.                                              *)
C37_GrabBoundToWindow ==
    /\ [](IsSome(WM.grab) =>
            /\ Unwrap(WM.grab).window_index < Len(WM.windows)
            /\ \A p \in MotionProbes :
                  \A i \in Indices(WM.windows) :
                      i # Unwrap(WM.grab).window_index =>
                          At(HandlePointerMotion(WM, p).windows, i) = At(WM.windows, i))
    /\ [][ (/\ IsSome(state.window_manager.grab)
            /\ state'.window_manager.grab = state.window_manager.grab)
              => GrabbedToplevel(state'.window_manager)
                    = GrabbedToplevel(state.window_manager) ]_vars


\* the window of toplevel t in a manager
WindowOf(wm, t) == At(wm.windows, Unwrap(PositionOf(wm.windows, t)))
Managed(wm, t) == IsSome(PositionOf(wm.windows, t))
\* a step sets or keeps the fullscreen flag of the window of t
StaysFullscreen(t) ==
    /\ Managed(state.window_manager, t)
    /\ Managed(state'.window_manager, t)
    /\ WindowOf(state.window_manager, t).fullscreen
    /\ WindowOf(state'.window_manager, t).fullscreen
EntersFullscreen(t) ==
    /\ Managed(state.window_manager, t)
    /\ Managed(state'.window_manager, t)
    /\ ~WindowOf(state.window_manager, t).fullscreen
    /\ WindowOf(state'.window_manager, t).fullscreen
\* the step is a pointer motion whose grab handling wrote to the window of t
GrabMotionOn(t) ==
    /\ IsSome(state.window_manager.grab)
    /\ PositionOf(state.window_manager.windows, t)
          = Some(Unwrap(state.window_manager.grab).window_index)
    /\ state'.window_manager =
          HandlePointerMotion(
            [state.window_manager EXCEPT !.cursor_pos = state'.window_manager.cursor_pos],
            state'.window_manager.cursor_pos)
\* cursor positions of a drag: up-left of every output, inside, far below
DragPoints == { <<AsF64(x), AsF64(y)>> : x \in {-5000, 700}, y \in {10, 5000} }
\* every window that is fullscreen before and after an operation has the
\* geometry it had
KeepsFullscreenGeometry(after) ==
    \A t \in Toplevels :
        (/\ Managed(WM, t) /\ WindowOf(WM, t).fullscreen
         /\ Managed(after, t) /\ WindowOf(after, t).fullscreen)
            => Geometry(WindowOf(after, t)) = Geometry(WindowOf(WM, t))
\* the operations other than grab motion, applied to the current state
OthersKeepFullscreenGeometry ==
    /\ \A surface \in Toplevels :
          /\ KeepsFullscreenGeometry(RemoveWindow(WM, surface))
          /\ ~Managed(WM, surface) =>
                KeepsFullscreenGeometry(AddWindow(WM, surface, state.output_size))
    /\ \A p \in AbsPoints : KeepsFullscreenGeometry(FocusAt(WM, p))
    /\ KeepsFullscreenGeometry(CycleFocus(WM))
    /\ KeepsFullscreenGeometry(CloseFocused(WM))
    /\ KeepsFullscreenGeometry(BeginMove(WM))
    /\ KeepsFullscreenGeometry(BeginResize(WM))
    /\ KeepsFullscreenGeometry(EndGrab(WM))
    /\ \A size \in OutputSizes :
          /\ KeepsFullscreenGeometry(TileLeft(WM, size))
          /\ KeepsFullscreenGeometry(TileRight(WM, size))
          /\ KeepsFullscreenGeometry(ToggleFullscreen(WM, size))
(* C38 as claimed: while a window's fullscreen flag is set its geometry is *)
(* position (0,0) and the output bounds of the toggle_fullscreen call that *)
(* set the flag; no grab motion and no other operation alters the geometry *)
(* of a fullscreen window without clearing the flag.                       *)
C38_FullscreenGeometryFixed ==
    /\ [](/\ OthersKeepFullscreenGeometry
          /\ \A p \in DragPoints :
                KeepsFullscreenGeometry(HandlePointerMotion(WM, p)))
    /\ [][ \A t \in Toplevels :
              /\ EntersFullscreen(t) =>
                    Geometry(WindowOf(state'.window_manager, t))
                        = [loc |-> <<0, 0>>, size |-> state.output_size]
              /\ StaysFullscreen(t) =>
                    Geometry(WindowOf(state'.window_manager, t))
                        = Geometry(WindowOf(state.window_manager, t)) ]_vars

(* C38, amended: the call that sets the flag puts the window at (0,0) with *)
(* the size of the output bounds it was given; while the flag stays set,   *)
(* the only operation that alters the window's geometry is the motion of a *)
(* grab whose index denotes the window (a move grab writes its position, a *)
(* resize grab its size, the flag stays set); every other operation leaves *)
(* the geometry of a fullscreen window alone or clears the flag.           *)
C38_FullscreenGeometryUnlessGrabbed ==
    /\ [](/\ OthersKeepFullscreenGeometry
          /\ \A p \in DragPoints :
                \A t \in Toplevels :
                    (/\ Managed(WM, t)
                     /\ ~( /\ IsSome(WM.grab)
                           /\ PositionOf(WM.windows, t)
                                 = Some(Unwrap(WM.grab).window_index) ))
                        => WindowOf(HandlePointerMotion(WM, p), t) = WindowOf(WM, t))
    /\ [][ \A t \in Toplevels :
              /\ EntersFullscreen(t) =>
                    Geometry(WindowOf(state'.window_manager, t))
                        = [loc |-> <<0, 0>>, size |-> state.output_size]
              /\ StaysFullscreen(t) =>
                    \/ Geometry(WindowOf(state'.window_manager, t))
                          = Geometry(WindowOf(state.window_manager, t))
                    \/ GrabMotionOn(t) ]_vars
\* a fullscreen window has been dragged off the origin and still carries
\* the flag
C38_Witness ==
    \E i \in Indices(WM.windows) :
        /\ At(WM.windows, i).fullscreen
        /\ At(WM.windows, i).position # <<0, 0>>
        /\ IsSome(WM.grab)
        /\ Unwrap(WM.grab).window_index = i
        /\ Unwrap(WM.grab).kind = "Move"


\* the rectangle render_frame paints for the panel bar
DrawnPanel == Frame[Len(WM.windows) + 2].rects[1]
(* C39: the panel band is one vertical range in every component: the band  *)
(* the window manager reserves (placement, tiling and the move clamp keep  *)
(* windows at or below its bottom), the band in which a button press is    *)
(* handed to the panel, and the rectangle the renderer paints for the      *)
(* panel have the same top and bottom Y.                                   *)
C39_OnePanelBand ==
    pc = "render" =>
        LET top == DrawnPanel[2]
            bottom == DrawnPanel[2] + DrawnPanel[4]
        IN /\ top = 0
           /\ bottom = PanelHeight
           /\ bottom = PanelBand
           /\ \A p \in CursorPoints :
                 Calls(PressAt(p), "panel.handle_click")
                     <=> (p[2] >= AsF64(top) /\ p[2] < AsF64(bottom))
           /\ \A surface \in Toplevels, size \in OutputSizes :
                 /\ AddWindow(WM, surface, size).windows[Len(WM.windows) + 1].position[2]
                       >= bottom
                 /\ FocusedValid(WM) =>
                       /\ FocusedWindow(TileLeft(WM, size)).position[2] = bottom
                       /\ FocusedWindow(TileRight(WM, size)).position[2] = bottom


\* a stack without its element at index i (0-based), the others in order
Without(stack, i) == SubSeq(stack, 1, i) \o SubSeq(stack, i + 2, Len(stack))
\* after is before with at most one window moved to the top, the others in
\* their relative order
Promoted(before, after) ==
    \/ after = before
    \/ \E i \in Indices(before) : after = Append(Without(before, i), At(before, i))
SameStack(after) == StackOf(after) = StackOf(WM)
=============================================================================
